---- MODULE Spec2Model ----
(***************************************************************************)
(* Model of the Edge-Capital-Partners trading bot:                         *)
(*   - the live path of edge-capital-partners-main/trade.py: the bot       *)
(*     trade ledger (bot_trades.json), the sell-safety validator and       *)
(*     place_order / on_trade_status;                                      *)
(*   - the batch matcher of clean_up_alert-main/main.py:                   *)
(*     match_buys_and_sells_state_based.                                   *)
(***************************************************************************)
EXTENDS Integers, Sequences, FiniteSets, TLC

(***************************************************************************)
(* Bounds of the model.                                                    *)
(***************************************************************************)
MaxQty == 2
MaxTrades == 2
MaxAdds == 3
MaxSaves == 2
MaxClientId == 9
MaxRows == 3
MaxBatch == 2
MaxDay == 1
MaxDepth == 9
MaxEvents == 4
MaxTime == 3
DayLen == 2
ValMaxPos == 5
ValMaxLedger == 10
ValMaxReq == 10

Tickers == {"AAPL", "TSLA"}
Actions == {"BUY", "SELL"}
Quantities == 1..MaxQty
PosRange == (0 - 1)..MaxQty
MaxOrders == MaxTrades + 1
LedgerPrices == {150}
\* datetime.now(), to the second: two calls read the same second or the later
\* one reads a later second.
Instants == {0, 1}
ClockFrom(t) == {u \in Instants : u >= t}

VARIABLES
    DEMO_MODE,      \* trade.py DEMO_MODE, fixed at import
    file,           \* bot_trades.json
    backup,         \* bot_trades.json.backup
    trades,         \* trade.py global `trades`: orders placed at the broker, callback pending
    next_order_id,  \* the broker client's next request id
    now,            \* the wall clock when it was last written to the ledger, in seconds
    last,           \* what the place_order call that is returning did; NoCall when idle
    vcall,          \* the last validate_bot_sell call on its own: inputs and result
    match_trades,   \* the matcher's argument `trades`, in arrival order
    pc,             \* where match_buys_and_sells_state_based stands
    trade_groups,   \* its dict trade_groups, as the keys in insertion order
    gi,             \* the group the outer loop is at
    group_trades,   \* the group's events from the first Buy on, by arrival index
    ti,             \* the event the inner loop is at
    position,       \* 0 = flat, 1 = long
    entry_trade,    \* arrival index of the pending open; 0 for None
    closed_trades,
    open_positions,
    temp,           \* bot_trades.json.tmp
    th,             \* per thread: where its ledger call stands and its trades_data
    lock,           \* trade_log_lock: the thread that holds it, 0 when free
    loaded,         \* what the last load of a reader gave
    report,         \* what the last add_bot_trade call told its caller and the log
    prior,          \* the ledger a load gave when the call that is running began
    rl,             \* main.py: the driver's run_loop session, its counters and waits
    ibc,            \* setup_ib_connection: where it stands, client_id, call depth
    df_closed,      \* clean_up_alert-main: the closed-trades frame, rows in frame order
    date_filter,    \* (start_date, end_date) of get_date_filters, <<>> standing for None
    alert_performance,  \* the rows create_alert_id_performance returned
    stage,          \* where the report run of clean_up_alert-main stands
    tm              \* main.py trade_on_messages: the batch and the message it is at

ledgerVars == <<DEMO_MODE, file, backup, trades, next_order_id, now, last, vcall>>
matchVars == <<match_trades, pc, trade_groups, gi, group_trades, ti, position,
               entry_trade, closed_trades, open_positions>>
storeVars == <<temp, th, lock, loaded, report, prior>>
reportVars == <<df_closed, date_filter, alert_performance, stage>>
loopVars == <<rl, ibc, reportVars, tm>>
vars == <<ledgerVars, matchVars, storeVars, loopVars>>

(***************************************************************************)
(* Values.                                                                 *)
(***************************************************************************)
Max(a, b) == IF a >= b THEN a ELSE b
Min(a, b) == IF a <= b THEN a ELSE b

NoId == <<>>
NoTime == 0 - 1
DemoOrderId(t, ticker, action) == <<"DEMO", t, ticker, action>>
IbOrderId(n) == <<"IB", n>>

EmptySummary == [t \in {} |-> 0]
EmptyLedger == [trades |-> <<>>, summary |-> EmptySummary]

\* A file is missing, holds a JSON ledger document, or holds bytes json.load rejects.
MissingFile == [state |-> "missing", data |-> EmptyLedger]
OkFile(data) == [state |-> "ok", data |-> data]

\* MOCK_POSITIONS
MOCK_POSITIONS ==
    [t \in {"BTCUSD", "AAPL", "GOOGL"} |->
        CASE t = "BTCUSD" -> 2
          [] t = "AAPL" -> 10
          [] t = "GOOGL" -> 5]

(***************************************************************************)
(* load_bot_trades / save_bot_trades                                       *)
(***************************************************************************)
\* What a file can hold besides a ledger document: an incomplete write of one
\* ("partial"), bytes that are not JSON ("garbled"), JSON that is not an
\* object ("not_ledger"); or it cannot be opened ("unreadable").
BadFile(state) == [state |-> state, data |-> EmptyLedger]
NotJson == {"partial", "garbled"}

\* What the call gives: a ledger, a value that is not one, or an exception.
Gives(data) == [kind |-> "ledger", data |-> data]
GivesOther == [kind |-> "not_ledger", data |-> EmptyLedger]
Raises == [kind |-> "raises", data |-> EmptyLedger]

\* Lines 102-134. A missing file gives the new structure; json.load's
\* JSONDecodeError sends the call to the backup, which it returns unvalidated,
\* any error there giving the empty structure; a TypeError of the structure
\* validation (lines 109-112) or an OSError of open() is not caught.
LoadOutcome(f, b) ==
    CASE f.state = "missing" -> Gives(EmptyLedger)
      [] f.state = "ok" -> Gives(f.data)
      [] f.state \in {"not_ledger", "unreadable"} -> Raises
      [] f.state \in NotJson ->
            CASE b.state = "ok" -> Gives(b.data)
              [] b.state = "not_ledger" -> GivesOther
              [] OTHER -> Gives(EmptyLedger)

\* The ledger the call returns (the callers below never meet a file that
\* makes it raise or return something else).
load_bot_trades(f, b) == LoadOutcome(f, b).data

\* The two files after a successful save of `data`.
save_bot_trades(f, b, data) ==
    [file |-> OkFile(data),
     backup |-> IF f.state = "missing" THEN b ELSE f]

(***************************************************************************)
(* get_bot_open_quantity / get_oldest_open_buy                             *)
(***************************************************************************)
\* get_bot_open_quantity that answers without reading the ledger.
AnyOpenQuantity(data, ticker) == MaxQty

get_bot_open_quantity(data, ticker) ==
    IF ticker \in DOMAIN data.summary
    THEN Max(0, data.summary[ticker].open_quantity)
    ELSE 0

IsOpenBuy(trade, ticker) ==
    /\ trade.ticker = ticker
    /\ trade.action = "BUY"
    /\ ~trade.is_closed
    /\ trade.status \in {"filled", "pending"}

\* get_oldest_open_buy that takes closed buys too.
OldestBuyClosedOrNot(data, ticker) ==
    LET buys == {i \in 1..Len(data.trades) :
                    /\ data.trades[i].ticker = ticker
                    /\ data.trades[i].action = "BUY"}
    IN  IF buys = {} THEN 0
        ELSE CHOOSE i \in buys :
                \A j \in buys :
                    \/ data.trades[i].timestamp < data.trades[j].timestamp
                    \/ /\ data.trades[i].timestamp = data.trades[j].timestamp
                       /\ i <= j

\* Index in data.trades of the entry a stable sort by timestamp puts first
\* among the open buys of the ticker; 0 when there is none.
get_oldest_open_buy(data, ticker) ==
    LET open_buys == {i \in 1..Len(data.trades) : IsOpenBuy(data.trades[i], ticker)}
    IN  IF open_buys = {} THEN 0
        ELSE CHOOSE i \in open_buys :
                \A j \in open_buys :
                    \/ data.trades[i].timestamp < data.trades[j].timestamp
                    \/ /\ data.trades[i].timestamp = data.trades[j].timestamp
                       /\ i <= j

(***************************************************************************)
(* add_bot_trade / update_trade_status / close_bot_trade, as functions of  *)
(* the loaded document; the callers below load and save around them.       *)
(***************************************************************************)
NewSummaryRow == [open_quantity |-> 0, total_buys |-> 0, total_sells |-> 0]

\* SummaryAfter that counts a SELL in open_quantity only.
SummaryAfterUncountedSell(summary, ticker, action, quantity) ==
    LET row == IF ticker \in DOMAIN summary THEN summary[ticker] ELSE NewSummaryRow
        new == IF action = "BUY"
               THEN [row EXCEPT !.total_buys = @ + quantity,
                                !.open_quantity = @ + quantity]
               ELSE [row EXCEPT !.open_quantity = @ - quantity]
    IN  [t \in DOMAIN summary \cup {ticker} |->
            IF t = ticker THEN new ELSE summary[t]]

SummaryAfter(summary, ticker, action, quantity) ==
    LET row == IF ticker \in DOMAIN summary THEN summary[ticker] ELSE NewSummaryRow
        new == IF action = "BUY"
               THEN [row EXCEPT !.total_buys = @ + quantity,
                                !.open_quantity = @ + quantity]
               ELSE [row EXCEPT !.total_sells = @ + quantity,
                                !.open_quantity = @ - quantity]
    IN  [t \in DOMAIN summary \cup {ticker} |->
            IF t = ticker THEN new ELSE summary[t]]

\* add_bot_trade that records the new entry as filled already.
AddAsFilled(data, order_id, ticker, action, quantity, price, t) ==
    LET new_trade ==
            [order_id |-> order_id,
             ticker |-> ticker,
             action |-> action,
             quantity |-> quantity,
             price |-> price,
             timestamp |-> t,
             status |-> "filled",
             is_closed |-> FALSE,
             closes_order_id |-> NoId,
             closed_by_order_id |-> NoId,
             completed_timestamp |-> t,
             closed_timestamp |-> NoTime]
    IN  [trades |-> Append(data.trades, new_trade),
         summary |-> SummaryAfter(data.summary, ticker, action, quantity)]

\* add_bot_trade that rewrites the entries already there as pending and open.
AddResetsEntries(data, order_id, ticker, action, quantity, price, t) ==
    LET new_trade ==
            [order_id |-> order_id,
             ticker |-> ticker,
             action |-> action,
             quantity |-> quantity,
             price |-> price,
             timestamp |-> t,
             status |-> "pending",
             is_closed |-> FALSE,
             closes_order_id |-> NoId,
             closed_by_order_id |-> NoId,
             completed_timestamp |-> NoTime,
             closed_timestamp |-> NoTime]
        reset == [i \in 1..Len(data.trades) |->
                     [data.trades[i] EXCEPT !.status = "pending", !.is_closed = FALSE]]
    IN  [trades |-> Append(reset, new_trade),
         summary |-> SummaryAfter(data.summary, ticker, action, quantity)]

add_bot_trade(data, order_id, ticker, action, quantity, price, t) ==
    LET buy == IF action = "SELL" THEN get_oldest_open_buy(data, ticker) ELSE 0
        new_trade ==
            [order_id |-> order_id,
             ticker |-> ticker,
             action |-> action,
             quantity |-> quantity,
             price |-> price,
             timestamp |-> t,
             status |-> "pending",
             is_closed |-> FALSE,
             closes_order_id |-> IF buy = 0 THEN NoId ELSE data.trades[buy].order_id,
             closed_by_order_id |-> NoId,
             completed_timestamp |-> NoTime,
             closed_timestamp |-> NoTime]
    IN  [trades |-> Append(data.trades, new_trade),
         summary |-> SummaryAfter(data.summary, ticker, action, quantity)]

FirstIndex(S) == CHOOSE i \in S : \A j \in S : i <= j

update_trade_status(data, order_id, status, t) ==
    LET hits == {i \in 1..Len(data.trades) : data.trades[i].order_id = order_id}
    IN  IF hits = {} THEN data
        ELSE [data EXCEPT !.trades[FirstIndex(hits)] =
                 [@ EXCEPT !.status = status, !.completed_timestamp = t]]

\* close_bot_trade that drops the Buy it closes.
CloseRemovesBuy(data, sell_order_id, buy_order_id, t) ==
    LET hits == {i \in 1..Len(data.trades) :
                    /\ data.trades[i].order_id = buy_order_id
                    /\ data.trades[i].action = "BUY"}
    IN  IF hits = {} THEN data
        ELSE [data EXCEPT !.trades = SubSeq(@, 1, FirstIndex(hits) - 1)
                                         \o SubSeq(@, FirstIndex(hits) + 1, Len(@))]

close_bot_trade(data, sell_order_id, buy_order_id, t) ==
    LET hits == {i \in 1..Len(data.trades) :
                    /\ data.trades[i].order_id = buy_order_id
                    /\ data.trades[i].action = "BUY"}
    IN  IF hits = {} THEN data
        ELSE [data EXCEPT !.trades[FirstIndex(hits)] =
                 [@ EXCEPT !.is_closed = TRUE,
                           !.closed_by_order_id = sell_order_id,
                           !.closed_timestamp = t]]

(***************************************************************************)
(* fetch_open_positions / validate_bot_sell                                *)
(***************************************************************************)
\* ib_positions: what ib.positions(account) reports, ticker -> signed quantity
\* (0: no position object); fails: the query raised.
fetch_open_positions(demo, ib_positions, fails) ==
    IF demo \/ fails THEN MOCK_POSITIONS
    ELSE [t \in {u \in DOMAIN ib_positions : ib_positions[u] # 0} |-> ib_positions[t]]

Rejected(reason) == [approved |-> FALSE, quantity |-> 0, reason |-> reason]

\* validate_bot_sell without the position check.
ValidateLedgerOnly(broker_positions, data, ticker, requested_quantity) ==
    LET bot_open_qty == get_bot_open_quantity(data, ticker)
    IN  IF bot_open_qty <= 0 THEN Rejected("NO_BOT_POSITION")
        ELSE IF requested_quantity > bot_open_qty THEN Rejected("EXCEEDS_BOT")
        ELSE [approved |-> TRUE,
              quantity |-> requested_quantity,
              reason |-> "SELL_VALIDATED"]

\* validate_bot_sell without the adjustment to the position.
ValidateUnadjusted(broker_positions, data, ticker, requested_quantity) ==
    IF ticker \notin DOMAIN broker_positions THEN Rejected("NO_POSITION")
    ELSE IF broker_positions[ticker] <= 0 THEN Rejected("NOT_LONG")
    ELSE LET bot_open_qty == get_bot_open_quantity(data, ticker)
         IN  IF bot_open_qty <= 0 THEN Rejected("NO_BOT_POSITION")
             ELSE IF requested_quantity > bot_open_qty THEN Rejected("EXCEEDS_BOT")
             ELSE [approved |-> TRUE,
                   quantity |-> requested_quantity,
                   reason |-> "SELL_VALIDATED"]

validate_bot_sell(broker_positions, data, ticker, requested_quantity) ==
    IF ticker \notin DOMAIN broker_positions THEN Rejected("NO_POSITION")
    ELSE IF broker_positions[ticker] <= 0 THEN Rejected("NOT_LONG")
    ELSE LET position_qty == broker_positions[ticker]
             bot_open_qty == get_bot_open_quantity(data, ticker)
         IN  IF bot_open_qty <= 0 THEN Rejected("NO_BOT_POSITION")
             ELSE IF requested_quantity > bot_open_qty THEN Rejected("EXCEEDS_BOT")
             ELSE IF requested_quantity > position_qty
                  THEN [approved |-> TRUE,
                        quantity |-> Min(Min(requested_quantity, position_qty), bot_open_qty),
                        reason |-> "QUANTITY_ADJUSTED"]
                  ELSE [approved |-> TRUE,
                        quantity |-> requested_quantity,
                        reason |-> "SELL_VALIDATED"]

(***************************************************************************)
(* place_order                                                             *)
(***************************************************************************)
NoCall ==
    [op |-> "none", ticker |-> "", action |-> "", requested |-> 0,
     validated |-> FALSE, approved |-> FALSE, adjusted |-> 0,
     placed |-> 0, placed_qty |-> 0, recorded |-> FALSE, recorded_qty |-> 0]

IbPositions(ticker, qty) == [t \in Tickers |-> IF t = ticker THEN qty ELSE 0]

\* One broker order as tracked in `trades`: what on_trade_status reads of it.
Trade(orderId, action, symbol) ==
    [orderId |-> orderId, action |-> action, symbol |-> symbol]

\* The components ib.bracketOrder builds: parent, take profit, stop loss.
BracketOrder(n, ticker) ==
    <<Trade(n, "BUY", ticker), Trade(n + 1, "SELL", ticker), Trade(n + 2, "SELL", ticker)>>

\* A call that did not run the validator, and one that did with result v.
CallOf(ticker, action, quantity) ==
    [NoCall EXCEPT !.op = "place_order", !.ticker = ticker, !.action = action,
                   !.requested = quantity]

Validated(call, v) ==
    [call EXCEPT !.validated = TRUE, !.approved = v.approved, !.adjusted = v.quantity]

\* The ledger file outlives a run: entries written before this run started
\* carry a timestamp before the run's clock. Those added in this run:
BeforeRun == 0 - 1
AddedInRun(data) ==
    Cardinality({i \in 1..Len(data.trades) : data.trades[i].timestamp # BeforeRun})

\* The call returns without an order and without a ledger entry.
Returns(call) ==
    /\ last' = call
    /\ UNCHANGED <<loopVars, DEMO_MODE, file, backup, trades, next_order_id, now, vcall, matchVars, storeVars>>

\* Demo branch (lines 706-755): add_bot_trade, then update_trade_status.
DemoOrder(call, ticker, action, quantity, price, t) ==
    LET mock_order_id == DemoOrderId(t, ticker, action)
        s1 == save_bot_trades(file, backup,
                  add_bot_trade(load_bot_trades(file, backup), mock_order_id,
                                ticker, action, quantity, price, t))
        s2 == save_bot_trades(s1.file, s1.backup,
                  update_trade_status(load_bot_trades(s1.file, s1.backup),
                                      mock_order_id, "filled", t))
    IN  /\ AddedInRun(load_bot_trades(file, backup)) < MaxTrades
        /\ file' = s2.file
        /\ backup' = s2.backup
        /\ last' = [call EXCEPT !.recorded = TRUE, !.recorded_qty = quantity]
        /\ now' = t
        /\ UNCHANGED <<loopVars, DEMO_MODE, trades, next_order_id, vcall, matchVars, storeVars>>

\* Live branch, from order creation on (lines 864-982). Each ib.placeOrder of
\* the call may raise: place_fail_at = k > 0 says the k-th one does.
LiveOrder(call, ticker, action, quantity, price, version, has_sltp, t) ==
    LET bracket == ~(version = "A" \/ action = "SELL" \/ ~has_sltp)
        n == next_order_id
        comps == IF bracket THEN BracketOrder(n, ticker)
                 ELSE <<Trade(n, action, ticker)>>
        s1 == save_bot_trades(file, backup,
                  add_bot_trade(load_bot_trades(file, backup), IbOrderId(n),
                                ticker, action, quantity, price, t))
    IN  /\ AddedInRun(load_bot_trades(file, backup)) < MaxTrades
        /\ n + Len(comps) - 1 <= MaxOrders
        /\ \E place_fail_at \in 0..Len(comps) :
              LET failed == place_fail_at > 0
                  nplaced == IF failed THEN place_fail_at - 1 ELSE Len(comps)
              IN  /\ trades' = trades \cup {comps[i] : i \in 1..nplaced}
                  /\ next_order_id' = IF bracket \/ ~failed THEN n + Len(comps) ELSE n
                  /\ IF failed
                     THEN /\ last' = [call EXCEPT !.placed = nplaced,
                                                  !.placed_qty = quantity]
                          /\ UNCHANGED <<loopVars, file, backup>>
                     ELSE /\ file' = s1.file
                          /\ backup' = s1.backup
                          /\ last' = [call EXCEPT !.placed = nplaced,
                                                  !.placed_qty = quantity,
                                                  !.recorded = TRUE,
                                                  !.recorded_qty = quantity]
        /\ now' = t
        /\ UNCHANGED <<loopVars, DEMO_MODE, vcall, matchVars, storeVars>>

\* After the validation step (lines 702-982).
Execute(call, ticker, action, quantity, price, version, has_sltp, t) ==
    IF DEMO_MODE THEN DemoOrder(call, ticker, action, quantity, price, t)
    ELSE \E qualified \in BOOLEAN :
            \* ib.qualifyContracts returned no contract: the call returns; a
            \* qualified contract, or an exception, and it goes on.
            IF ~qualified THEN Returns(call)
            ELSE IF action = "SELL" /\ (\E tr \in trades : tr.symbol = ticker)
                 THEN Returns(call)
            ELSE LiveOrder(call, ticker, action, quantity, price, version, has_sltp, t)

\* What the broker answers to the position query of a sell's validation:
\* the ticker's signed quantity, or an exception.
BrokerAnswers ==
    IF DEMO_MODE THEN {[qty |-> 0, fails |-> FALSE]}
    ELSE [qty : PosRange, fails : {FALSE}] \cup {[qty |-> 0, fails |-> TRUE]}

\* place_order that sends a SELL on as it sends a BUY.
PlaceOrderUnvalidated(ticker, action, quantity, price, version, has_sltp, t) ==
    Execute(CallOf(ticker, action, quantity),
            ticker, action, quantity, price, version, has_sltp, t)

\* t: the clock when the call runs.
place_order(ticker, action, quantity, price, version, has_sltp, t) ==
    IF action = "SELL"
    THEN \E ans \in BrokerAnswers :
            LET broker_positions ==
                    fetch_open_positions(DEMO_MODE, IbPositions(ticker, ans.qty), ans.fails)
                v == validate_bot_sell(broker_positions, load_bot_trades(file, backup),
                                       ticker, quantity)
                call == Validated(CallOf(ticker, action, quantity), v)
            IN  IF ~v.approved THEN Returns(call)
                ELSE Execute(call, ticker, action, v.quantity, price, version, has_sltp, t)
    ELSE Execute(CallOf(ticker, action, quantity),
                 ticker, action, quantity, price, version, has_sltp, t)

\* args.version and whether the alert carried sl_pct / tp_pct: only a live
\* BUY reads them (line 867); elsewhere they are logged only.
OrderStyles(action) ==
    IF action = "BUY" /\ ~DEMO_MODE
    THEN {<<"A", FALSE>>, <<"B", FALSE>>, <<"B", TRUE>>}
    ELSE {<<"A", FALSE>>}

PlaceOrder ==
    /\ last = NoCall
    /\ \E ticker \in Tickers, action \in Actions, quantity \in Quantities,
          price \in LedgerPrices, t \in ClockFrom(now) :
          \E style \in OrderStyles(action) :
             place_order(ticker, action, quantity, price, style[1], style[2], t)

(***************************************************************************)
(* on_trade_status                                                         *)
(***************************************************************************)
on_trade_status(trade, is_done, t) ==
    IF ~is_done
    THEN /\ last' = NoCall
         /\ UNCHANGED <<loopVars, DEMO_MODE, file, backup, trades, next_order_id, now, vcall, matchVars, storeVars>>
    ELSE LET id == IbOrderId(trade.orderId)
             s1 == save_bot_trades(file, backup,
                       update_trade_status(load_bot_trades(file, backup),
                                           id, "filled", t))
             d1 == load_bot_trades(s1.file, s1.backup)
             buy == IF trade.action = "SELL"
                    THEN get_oldest_open_buy(d1, trade.symbol) ELSE 0
             s2 == IF buy = 0 THEN s1
                   ELSE save_bot_trades(s1.file, s1.backup,
                            close_bot_trade(d1, id, d1.trades[buy].order_id, t))
         IN  /\ file' = s2.file
             /\ backup' = s2.backup
             /\ trades' = trades \ {trade}
             /\ last' = NoCall
             /\ now' = t
             /\ UNCHANGED <<loopVars, DEMO_MODE, next_order_id, vcall, matchVars, storeVars>>

OnTradeStatus ==
    /\ ~DEMO_MODE
    /\ last = NoCall
    /\ \E trade \in trades, is_done \in BOOLEAN, t \in ClockFrom(now) :
          on_trade_status(trade, is_done, t)

(***************************************************************************)
(* clean_up_alert-main/main.py: match_buys_and_sells_state_based           *)
(***************************************************************************)
\* (Alert ID, Ticker)
Keys == {<<"S1", "X">>, <<"S2", "X">>}
MatchActions == {"Buy", "Sell"}
Times == 1..MaxTime
MatchPrices == {100}

\* One element of `trades`, as build_trades makes it.
TradeEvents == [key : Keys, Action : MatchActions, DateTime : Times, Price : MatchPrices]
MatchInputs(n) == [1..n -> TradeEvents]

\* 'Date' is the event's DateTime formatted to the day (DayLen instants a day).
DateOf(trade) == trade.DateTime \div DayLen

\* The keys of trade_groups in insertion order (lines 311-320).
RECURSIVE GroupKeys(_, _)
GroupKeys(tr, seen) ==
    IF tr = <<>> THEN <<>>
    ELSE IF Head(tr).key \in seen THEN GroupKeys(Tail(tr), seen)
    ELSE <<Head(tr).key>> \o GroupKeys(Tail(tr), seen \cup {Head(tr).key})

\* trade_groups[key]: the arrival indices of the key's events, in arrival order.
RECURSIVE GroupOf(_, _, _)
GroupOf(tr, key, i) ==
    IF i > Len(tr) THEN <<>>
    ELSE IF tr[i].key = key THEN <<i>> \o GroupOf(tr, key, i + 1)
    ELSE GroupOf(tr, key, i + 1)

RemoveAt(s, k) == SubSeq(s, 1, k - 1) \o SubSeq(s, k + 1, Len(s))

\* SortByDateTime that leaves the group in arrival order.
ArrivalOrder(tr, g) == g

\* list.sort(key=DateTime) (line 326): stable.
RECURSIVE SortByDateTime(_, _)
SortByDateTime(tr, g) ==
    IF g = <<>> THEN <<>>
    ELSE LET k == CHOOSE k \in 1..Len(g) :
                    \A j \in 1..Len(g) :
                        \/ tr[g[k]].DateTime < tr[g[j]].DateTime
                        \/ /\ tr[g[k]].DateTime = tr[g[j]].DateTime
                           /\ k <= j
         IN  <<g[k]>> \o SortByDateTime(tr, RemoveAt(g, k))

\* first_buy_index (lines 328-333), 1-based; 0 for None.
FirstBuyIndex(tr, g) ==
    LET buys == {k \in 1..Len(g) : tr[g[k]].Action = "Buy"}
    IN  IF buys = {} THEN 0 ELSE CHOOSE k \in buys : \A j \in buys : k <= j

\* group_trades[first_buy_index:] of the sorted group (lines 326-345).
FromFirstBuy(tr, key) ==
    LET g == SortByDateTime(tr, GroupOf(tr, key, 1))
        first_buy_index == FirstBuyIndex(tr, g)
    IN  IF first_buy_index = 0 THEN <<>> ELSE SubSeq(g, first_buy_index, Len(g))

\* ret_pct > 0, for ret_pct = (pnl / cost) * 100 if cost != 0 else 0.
RetPositive(pnl, cost) ==
    /\ cost # 0
    /\ \/ pnl > 0 /\ cost > 0
       \/ pnl < 0 /\ cost < 0

\* round(num / den, 0) for den > 0: the nearest integer, a tie going to the
\* even one.
RoundDiv(num, den) ==
    LET q == num \div den
        r == num % den
    IN  IF 2 * r < den THEN q
        ELSE IF 2 * r > den THEN q + 1
        ELSE IF q % 2 = 0 THEN q ELSE q + 1

\* round(ret_pct, 2) of line 406, in hundredths of a percent, for
\* ret_pct = (pnl / cost) * 100 if cost != 0 else 0 (line 394).
RoundedReturn(pnl, cost) ==
    IF cost = 0 THEN 0
    ELSE IF cost > 0 THEN RoundDiv(pnl * 10000, cost)
    ELSE RoundDiv((0 - pnl) * 10000, 0 - cost)

\* ClosedTrade with a trade that returns nothing counted as a Win.
ClosedTradeWinAtZero(tr, key, e, x) ==
    LET shares == 1
        cost == tr[e].Price * shares
        pnl == (tr[x].Price - tr[e].Price) * shares
    IN  [key |-> key, open_ev |-> e, close_ev |-> x,
         TradingDate |-> DateOf(tr[e]), ClosingDate |-> DateOf(tr[x]),
         Open |-> tr[e].Price, Closing |-> tr[x].Price,
         Shares |-> shares, Cost |-> cost, PnL |-> pnl,
         Return |-> RoundedReturn(pnl, cost),
         Outcome |-> IF pnl >= 0 THEN "Win" ELSE "Loss"]

\* The result dict of lines 396-410; open_ev and close_ev name the two events
\* it is built from.  Prices are whole cents, which round(x, 2) leaves as
\* they are; Return is in hundredths of a percent.
ClosedTrade(tr, key, e, x) ==
    LET shares == 1
        cost == tr[e].Price * shares
        pnl == (tr[x].Price - tr[e].Price) * shares
    IN  [key |-> key, open_ev |-> e, close_ev |-> x,
         TradingDate |-> DateOf(tr[e]), ClosingDate |-> DateOf(tr[x]),
         Open |-> tr[e].Price, Closing |-> tr[x].Price,
         Shares |-> shares, Cost |-> cost, PnL |-> pnl,
         Return |-> RoundedReturn(pnl, cost),
         Outcome |-> IF RetPositive(pnl, cost) THEN "Win" ELSE "Loss"]


\* The open_position dict of lines 422-435.
OpenPosition(tr, key, e) ==
    [key |-> key, entry_ev |-> e, EntryDate |-> DateOf(tr[e]),
     EntryPrice |-> tr[e].Price, Shares |-> 1]

\* ScanStep with a close that leaves the position long on the same Buy.
ScanStepNoReset(st, tr, key, i) ==
    IF tr[i].Action = "Buy"
    THEN IF st.position = 0
         THEN [st EXCEPT !.position = 1, !.entry_trade = i]
         ELSE st
    ELSE IF st.position = 0
         THEN st
         ELSE [st EXCEPT !.closed_trades =
                   Append(st.closed_trades, ClosedTrade(tr, key, st.entry_trade, i))]

\* ScanStep with a Buy while long that replaces the remembered Buy.
ScanStepLastBuy(st, tr, key, i) ==
    IF tr[i].Action = "Buy"
    THEN [st EXCEPT !.position = 1, !.entry_trade = i]
    ELSE IF st.position = 0
         THEN st
         ELSE [position |-> 0,
               entry_trade |-> 0,
               closed_trades |-> Append(st.closed_trades,
                                        ClosedTrade(tr, key, st.entry_trade, i))]

\* One pass of the inner loop (lines 351-418) on the event of arrival index i:
\* st holds position, entry_trade and closed_trades.
ScanStep(st, tr, key, i) ==
    IF tr[i].Action = "Buy"
    THEN IF st.position = 0
         THEN [st EXCEPT !.position = 1, !.entry_trade = i]
         ELSE st
    ELSE IF st.position = 0
         THEN st
         ELSE [position |-> 0,
               entry_trade |-> 0,
               closed_trades |-> Append(st.closed_trades,
                                        ClosedTrade(tr, key, st.entry_trade, i))]

\* Lines 420-436.
WithOpenPosition(ops, tr, key, pos, entry) ==
    IF pos # 0 /\ entry # 0 THEN Append(ops, OpenPosition(tr, key, entry)) ELSE ops

\* The function as a whole: the inner loop over a group, the outer loop over
\* the groups, and the pair returned.
RECURSIVE ScanFrom(_, _, _, _, _)
ScanFrom(st, tr, key, g, k) ==
    IF k > Len(g) THEN st
    ELSE ScanFrom(ScanStep(st, tr, key, g[k]), tr, key, g, k + 1)

RECURSIVE MatchGroups(_, _, _, _)
MatchGroups(out, tr, keys, n) ==
    IF n > Len(keys) THEN out
    ELSE LET g == FromFirstBuy(tr, keys[n])
             st == ScanFrom([position |-> 0, entry_trade |-> 0,
                             closed_trades |-> out.closed_trades],
                            tr, keys[n], g, 1)
         IN  MatchGroups([closed_trades |-> st.closed_trades,
                          open_positions |->
                              WithOpenPosition(out.open_positions, tr, keys[n],
                                               st.position, st.entry_trade)],
                         tr, keys, n + 1)

match_buys_and_sells_state_based(tr) ==
    MatchGroups([closed_trades |-> <<>>, open_positions |-> <<>>],
                tr, GroupKeys(tr, {}), 1)

(***************************************************************************)
(* The same function, step by step.                                        *)
(***************************************************************************)
\* Lines 308-322.
GroupTrades ==
    /\ pc = "group"
    /\ trade_groups' = GroupKeys(match_trades, {})
    /\ gi' = 1
    /\ pc' = "groups"
    /\ UNCHANGED <<loopVars, match_trades, group_trades, ti, position, entry_trade,
                   closed_trades, open_positions, ledgerVars, storeVars>>

\* Lines 324-349: sort the group, drop what precedes its first Buy; a group
\* with no Buy is skipped.
BeginGroup ==
    /\ pc = "groups"
    /\ gi <= Len(trade_groups)
    /\ LET key == trade_groups[gi]
           g == SortByDateTime(match_trades, GroupOf(match_trades, key, 1))
       IN  IF FirstBuyIndex(match_trades, g) = 0
           THEN /\ gi' = gi + 1
                /\ UNCHANGED <<loopVars, pc, group_trades, ti, position, entry_trade>>
           ELSE /\ group_trades' = FromFirstBuy(match_trades, key)
                /\ ti' = 1
                /\ position' = 0
                /\ entry_trade' = 0
                /\ pc' = "scan"
                /\ UNCHANGED gi
    /\ UNCHANGED <<loopVars, match_trades, trade_groups, closed_trades, open_positions, ledgerVars, storeVars>>

\* Lines 351-418, one event.
ScanTrade ==
    /\ pc = "scan"
    /\ ti <= Len(group_trades)
    /\ LET st == ScanStep([position |-> position, entry_trade |-> entry_trade,
                           closed_trades |-> closed_trades],
                          match_trades, trade_groups[gi], group_trades[ti])
       IN  /\ position' = st.position
           /\ entry_trade' = st.entry_trade
           /\ closed_trades' = st.closed_trades
    /\ ti' = ti + 1
    /\ UNCHANGED <<loopVars, match_trades, pc, trade_groups, gi, group_trades,
                   open_positions, ledgerVars, storeVars>>

\* Lines 420-436, and on to the next group.
EndGroup ==
    /\ pc = "scan"
    /\ ti > Len(group_trades)
    /\ open_positions' = WithOpenPosition(open_positions, match_trades,
                                          trade_groups[gi], position, entry_trade)
    /\ gi' = gi + 1
    /\ pc' = "groups"
    /\ UNCHANGED <<loopVars, match_trades, trade_groups, group_trades, ti, position,
                   entry_trade, closed_trades, ledgerVars, storeVars>>

\* Line 442.
ReturnMatches ==
    /\ pc = "groups"
    /\ gi > Len(trade_groups)
    /\ pc' = "done"
    /\ UNCHANGED <<loopVars, match_trades, trade_groups, gi, group_trades, ti, position,
                   entry_trade, closed_trades, open_positions, ledgerVars, storeVars>>

(***************************************************************************)
(* The bot: place_order calls, one at a time, and the broker's callbacks.  *)
(***************************************************************************)
NoValidation ==
    [ticker |-> "", requested |-> 0, query_failed |-> FALSE,
     has_position |-> FALSE, position |-> 0,
     approved |-> FALSE, quantity |-> 0, reason |-> ""]

NoLoad == [kind |-> "none", data |-> EmptyLedger]
NoReport == [called |-> FALSE, saved |-> FALSE, logged |-> FALSE, error |-> FALSE]
Threads == {1, 2}
NoOp == [name |-> "none", order_id |-> NoId, buy_order_id |-> NoId]
IdleThread == [pc |-> "idle", op |-> NoOp, data |-> EmptyLedger]

\* No run_loop session has started; setup_ib_connection has not been called.
NoSession ==
    [pc |-> "off", creds |-> "real", net |-> "up", connection_retry_count |-> 0,
     consecutive_failures |-> 0, idle_retry_count |-> 0, waits |-> <<>>,
     reason |-> "none"]
NoConnect == [pc |-> "off", net |-> "up", client_id |-> 0, depth |-> 0]
NoDates == [start_date |-> <<>>, end_date |-> <<>>]
NoBatch == [pc |-> "off", messages |-> <<>>, at |-> 0]

LoopIdle ==
    /\ rl = NoSession
    /\ ibc = NoConnect
    /\ df_closed = <<>>
    /\ date_filter = NoDates
    /\ alert_performance = {}
    /\ stage = "off"
    /\ tm = NoBatch

StoreIdle ==
    /\ temp = MissingFile
    /\ th = [t \in Threads |-> IdleThread]
    /\ lock = 0
    /\ loaded = NoLoad
    /\ report = NoReport
    /\ prior = EmptyLedger

LedgerInit ==
    /\ file = MissingFile
    /\ backup = MissingFile
    /\ trades = {}
    /\ next_order_id = 1
    /\ now = 0
    /\ last = NoCall
    /\ vcall = NoValidation

\* The matcher is not running.
MatchIdle ==
    /\ match_trades = <<>>
    /\ pc = "idle"
    /\ trade_groups = <<>>
    /\ gi = 0
    /\ group_trades = <<>>
    /\ ti = 0
    /\ position = 0
    /\ entry_trade = 0
    /\ closed_trades = <<>>
    /\ open_positions = <<>>

Init ==
    /\ DEMO_MODE \in BOOLEAN
    /\ LedgerInit
    /\ MatchIdle
    /\ StoreIdle
    /\ LoopIdle

\* place_order is back at its caller, trade_on_messages.
Return ==
    /\ last # NoCall
    /\ last' = NoCall
    /\ UNCHANGED <<loopVars, DEMO_MODE, file, backup, trades, next_order_id, now, vcall, matchVars, storeVars>>

Next ==
    \/ PlaceOrder
    \/ Return
    \/ OnTradeStatus

Spec == Init /\ [][Next]_vars

(***************************************************************************)
(* validate_bot_sell on its own: every ledger of one BUY, sold or not, and *)
(* every answer of the position query.                                     *)
(***************************************************************************)
ValidateLedgers ==
    {EmptyLedger}
    \cup {add_bot_trade(EmptyLedger, IbOrderId(1), ticker, "BUY", q, 150, 0) :
              ticker \in Tickers, q \in 1..ValMaxLedger}
    \cup {add_bot_trade(add_bot_trade(EmptyLedger, IbOrderId(1), ticker, "BUY", q, 150, 0),
                        IbOrderId(2), ticker, "SELL", q, 150, 0) :
              ticker \in Tickers, q \in 1..ValMaxLedger}

ValidateInit ==
    /\ DEMO_MODE \in BOOLEAN
    /\ \E data \in ValidateLedgers :
           file = IF data = EmptyLedger THEN MissingFile ELSE OkFile(data)
    /\ backup = MissingFile
    /\ trades = {}
    /\ next_order_id = 1
    /\ now = 0
    /\ last = NoCall
    /\ vcall = NoValidation
    /\ MatchIdle
    /\ StoreIdle
    /\ LoopIdle

ValidateBrokerAnswers ==
    IF DEMO_MODE THEN {[qty |-> 0, fails |-> FALSE]}
    ELSE [qty : (0 - 1)..ValMaxPos, fails : {FALSE}] \cup {[qty |-> 0, fails |-> TRUE]}

\* validate_bot_sell(ticker, requested_quantity), lines 281-316.
ValidateBotSell ==
    /\ vcall = NoValidation
    /\ \E ticker \in Tickers, requested_quantity \in 0..ValMaxReq,
          ans \in ValidateBrokerAnswers :
           LET broker_positions ==
                   fetch_open_positions(DEMO_MODE, IbPositions(ticker, ans.qty), ans.fails)
               v == validate_bot_sell(broker_positions, load_bot_trades(file, backup),
                                      ticker, requested_quantity)
           IN  /\ vcall' = [ticker |-> ticker,
                            requested |-> requested_quantity,
                            query_failed |-> ans.fails,
                            has_position |-> ticker \in DOMAIN broker_positions,
                            position |-> IF ticker \in DOMAIN broker_positions
                                         THEN broker_positions[ticker] ELSE 0,
                            approved |-> v.approved,
                            quantity |-> v.quantity,
                            reason |-> v.reason]
               /\ UNCHANGED <<loopVars, DEMO_MODE, file, backup, trades, next_order_id, now,
                              last, matchVars, storeVars>>

SpecValidate == ValidateInit /\ [][ValidateBotSell]_vars

(***************************************************************************)
(* add_bot_trade called directly, from an empty ledger.                    *)
(***************************************************************************)
\* add_bot_trade(order_id, ticker, action, quantity, price, ...), lines
\* 158-204, with the order ids a broker hands out: one after the other.
AddBotTrade ==
    \E ticker \in Tickers, action \in Actions, quantity \in Quantities,
       price \in LedgerPrices, t \in ClockFrom(now) :
        LET data == load_bot_trades(file, backup)
            s1 == save_bot_trades(file, backup,
                      add_bot_trade(data, IbOrderId(Len(data.trades) + 1),
                                    ticker, action, quantity, price, t))
        IN  /\ Len(data.trades) < MaxAdds
            /\ file' = s1.file
            /\ backup' = s1.backup
            /\ now' = t
            /\ UNCHANGED <<loopVars, DEMO_MODE, trades, next_order_id, last, vcall, matchVars, storeVars>>

SpecAdd == Init /\ [][AddBotTrade]_vars

(***************************************************************************)
(* The matcher on every input within the bounds.                           *)
(***************************************************************************)
MatchInit ==
    /\ DEMO_MODE = TRUE
    /\ LedgerInit
    /\ \E n \in 0..MaxEvents : match_trades \in MatchInputs(n)
    \* (Alert ID, Ticker) pairs are told apart only by equality: the first
    \* event's is called S1.
    /\ match_trades # <<>> => match_trades[1].key = <<"S1", "X">>
    /\ pc = "group"
    /\ trade_groups = <<>>
    /\ gi = 0
    /\ group_trades = <<>>
    /\ ti = 0
    /\ position = 0
    /\ entry_trade = 0
    /\ closed_trades = <<>>
    /\ open_positions = <<>>
    /\ StoreIdle
    /\ LoopIdle

MatchNext ==
    \/ GroupTrades
    \/ BeginGroup
    \/ ScanTrade
    \/ EndGroup
    \/ ReturnMatches

SpecMatch == MatchInit /\ [][MatchNext]_vars

\* The matcher on events whose prices differ: whole cents, none of them zero
\* (build_trades keeps a row only `if action and price`, line 253).
MaxPriced == 2
ReturnPrices == {100, 110, 30000, 30001}
PricedEvents == [key : Keys, Action : MatchActions, DateTime : Times, Price : ReturnPrices]

PricedInit ==
    /\ DEMO_MODE = TRUE
    /\ LedgerInit
    /\ \E n \in 0..MaxPriced : match_trades \in [1..n -> PricedEvents]
    /\ match_trades # <<>> => match_trades[1].key = <<"S1", "X">>
    /\ pc = "group"
    /\ trade_groups = <<>>
    /\ gi = 0
    /\ group_trades = <<>>
    /\ ti = 0
    /\ position = 0
    /\ entry_trade = 0
    /\ closed_trades = <<>>
    /\ open_positions = <<>>
    /\ StoreIdle
    /\ LoopIdle

SpecPriced == PricedInit /\ [][MatchNext]_vars

(***************************************************************************)
(* Properties of the matcher.                                              *)
(***************************************************************************)
\* C1: whatever the events, no two closed trades are built from the same
\* opening Buy, no key gets more than one open position, and the position is
\* only ever flat (0) or long (1).
C1_OneClosePerBuyOneOpenPerKey ==
    /\ \A i, j \in 1..Len(closed_trades) :
           i # j => closed_trades[i].open_ev # closed_trades[j].open_ev
    /\ \A i, j \in 1..Len(open_positions) :
           i # j => open_positions[i].key # open_positions[j].key
    /\ position \in {0, 1}

\* Two round trips of one key, each closed from its own Buy.
C1_Witness ==
    /\ pc = "done"
    /\ Len(closed_trades) = 2
    /\ closed_trades[1].key = closed_trades[2].key
    /\ closed_trades[1].open_ev # closed_trades[2].open_ev

\* The event the inner loop is about to read is invalid in the current state.
InvalidEvent ==
    /\ pc = "scan"
    /\ ti <= Len(group_trades)
    /\ \/ match_trades[group_trades[ti]].Action = "Buy" /\ position = 1
       \/ match_trades[group_trades[ti]].Action = "Sell" /\ position = 0

BuyBuySell ==
    <<[key |-> <<"S1", "X">>, Action |-> "Buy", DateTime |-> 1, Price |-> 100],
      [key |-> <<"S1", "X">>, Action |-> "Buy", DateTime |-> 2, Price |-> 100],
      [key |-> <<"S1", "X">>, Action |-> "Sell", DateTime |-> 3, Price |-> 100]>>

\* C2: a Buy while long or a Sell while flat changes neither the position nor
\* the remembered Buy and emits nothing; and on [Buy t=1, Buy t=2, Sell t=3]
\* the one closed trade is built from the Buy of t=1 and the key ends flat.
C2_InvalidEventDiscarded ==
    /\ [][InvalidEvent => UNCHANGED <<loopVars, position, entry_trade, closed_trades,
                                      open_positions>>]_vars
    /\ [](pc = "done" /\ match_trades = BuyBuySell =>
              /\ Len(closed_trades) = 1
              /\ closed_trades[1].open_ev = 1
              /\ closed_trades[1].close_ev = 3
              /\ open_positions = <<>>
              /\ position = 0)

\* The scenario has run: the second Buy was read while long.
C2_Witness ==
    /\ pc = "done"
    /\ match_trades = BuyBuySell
    /\ Len(closed_trades) = 1

\* Event i is a Sell with no Buy of its key before it in time (arrival order
\* decides between events of the same instant).
LeadingSell(tr, i) ==
    /\ tr[i].Action = "Sell"
    /\ ~ \E j \in 1..Len(tr) :
           /\ tr[j].key = tr[i].key
           /\ tr[j].Action = "Buy"
           /\ \/ tr[j].DateTime < tr[i].DateTime
              \/ tr[j].DateTime = tr[i].DateTime /\ j < i

RECURSIVE WithoutLeadingSells(_, _, _)
WithoutLeadingSells(tr, key, i) ==
    IF i > Len(tr) THEN <<>>
    ELSE IF tr[i].key = key /\ LeadingSell(tr, i)
         THEN WithoutLeadingSells(tr, key, i + 1)
         ELSE <<tr[i]>> \o WithoutLeadingSells(tr, key, i + 1)

\* What the caller sees of a key's closed trades and open positions.
ClosedOf(closed, key) ==
    LET OfKey(c) == c.key = key
        s == SelectSeq(closed, OfKey)
    IN  [n \in 1..Len(s) |->
            [TradingDate |-> s[n].TradingDate, ClosingDate |-> s[n].ClosingDate,
             Open |-> s[n].Open, Closing |-> s[n].Closing, Shares |-> s[n].Shares,
             Cost |-> s[n].Cost, PnL |-> s[n].PnL, Outcome |-> s[n].Outcome]]

OpenOf(opens, key) ==
    LET OfKey(o) == o.key = key
        s == SelectSeq(opens, OfKey)
    IN  [n \in 1..Len(s) |->
            [EntryDate |-> s[n].EntryDate, EntryPrice |-> s[n].EntryPrice,
             Shares |-> s[n].Shares]]

\* C3: for every key whose events in time order begin with Sells, no closed
\* trade is built from one of those Sells, and the key's closed trades and
\* open position are those of the run on the input without them.
C3_LeadingSellsIgnored ==
    pc = "done" =>
        \A key \in Keys :
            (\E i \in 1..Len(match_trades) :
                 match_trades[i].key = key /\ LeadingSell(match_trades, i)) =>
                LET out == match_buys_and_sells_state_based(
                               WithoutLeadingSells(match_trades, key, 1))
                IN  /\ \A n \in 1..Len(closed_trades) :
                           ~ LeadingSell(match_trades, closed_trades[n].close_ev)
                    /\ ClosedOf(closed_trades, key) = ClosedOf(out.closed_trades, key)
                    /\ OpenOf(open_positions, key) = OpenOf(out.open_positions, key)

\* A key with Sell (t=1), Buy (t=2), Sell (t=3): the Sell of t=1 leads, and
\* the trade closed is Buy t=2 / Sell t=3.
C3_Witness ==
    /\ pc = "done"
    /\ Len(match_trades) = 3
    /\ match_trades[1].Action = "Sell" /\ match_trades[1].DateTime = 1
    /\ match_trades[2].Action = "Buy" /\ match_trades[2].DateTime = 2
    /\ match_trades[3].Action = "Sell" /\ match_trades[3].DateTime = 3
    /\ match_trades[1].key = match_trades[2].key
    /\ match_trades[1].key = match_trades[3].key
    /\ Len(closed_trades) = 1
    /\ closed_trades[1].open_ev = 2
    /\ closed_trades[1].close_ev = 3

\* The input is a Buy/Sell pair of one key that closes a trade, followed by
\* the same pair again.
DuplicatedPair(tr) ==
    /\ Len(tr) = 4
    /\ tr[1].Action = "Buy"
    /\ tr[2].Action = "Sell"
    /\ tr[1].key = tr[2].key
    /\ tr[1].DateTime <= tr[2].DateTime
    /\ tr[3] = tr[1]
    /\ tr[4] = tr[2]

\* C4: an input that holds a closed Buy/Sell pair twice, the copies with the
\* timestamps of the originals, gives exactly one closed trade.
C4_DuplicatedPairClosedOnce ==
    pc = "done" /\ DuplicatedPair(match_trades) => Len(closed_trades) = 1

(***************************************************************************)
(* Properties of place_order and of the sell validator.                    *)
(***************************************************************************)
Ledger == load_bot_trades(file, backup)

\* C5: a SELL through place_order gets a broker order or a ledger entry only
\* if validate_bot_sell approved it in that call, and then for the validator's
\* quantity; a rejected SELL places no order and leaves the ledger as it was;
\* a BUY never runs the validator.
C5_SellOnlyAsValidated ==
    [][last'.op = "place_order" =>
          LET before == load_bot_trades(file, backup).trades
              after == load_bot_trades(file', backup').trades
              appended == Len(after) > Len(before)
              placed == trades' # trades
          IN  /\ last'.action = "SELL" /\ (appended \/ placed) =>
                     /\ last'.validated
                     /\ last'.approved
                     /\ appended => after[Len(after)].quantity = last'.adjusted
                     /\ placed => last'.placed_qty = last'.adjusted
              /\ last'.action = "SELL" /\ ~last'.approved =>
                     UNCHANGED <<loopVars, file, backup, trades>>
              /\ last'.action = "BUY" => ~last'.validated]_vars

\* A live SELL of 2 that the validator cut to the position of 1, placed and
\* recorded.
C5_Witness ==
    /\ last.op = "place_order"
    /\ last.action = "SELL"
    /\ last.approved
    /\ last.requested = 2
    /\ last.adjusted = 1
    /\ last.placed = 1
    /\ last.recorded
    /\ Ledger.trades[Len(Ledger.trades)].action = "SELL"
    /\ Ledger.trades[Len(Ledger.trades)].quantity = 1

\* The ledger's open_quantity for the ticker, as stored.
StoredOpenQuantity(ticker) ==
    IF ticker \in DOMAIN Ledger.summary THEN Ledger.summary[ticker].open_quantity ELSE 0

\* C6: validate_bot_sell approves only if the position map has the ticker
\* with a quantity above 0 and the ledger's open_quantity for it is above 0
\* and not below the requested quantity; a ticker the map does not hold is
\* rejected whatever the ledger and the request.
C6_ApprovedOnlyIfBothChecksPass ==
    vcall # NoValidation =>
        /\ vcall.approved =>
               /\ vcall.has_position
               /\ vcall.position > 0
               /\ StoredOpenQuantity(vcall.ticker) > 0
               /\ vcall.requested <= StoredOpenQuantity(vcall.ticker)
        /\ ~vcall.has_position => ~vcall.approved /\ vcall.quantity = 0

\* An approval with both checks passed: position 5, ledger 10, request 3.
C6_Witness ==
    /\ vcall.approved
    /\ vcall.has_position
    /\ vcall.position = 5
    /\ StoredOpenQuantity(vcall.ticker) = 10
    /\ vcall.requested = 3

Min3(a, b, c) == Min(Min(a, b), c)

\* C7 as stated: whenever the request exceeds the (positive) position the
\* call is approved with min(requested, position, ledger open_quantity) and
\* a reason that reports the adjustment.
C7_AsStated ==
    vcall # NoValidation /\ vcall.has_position /\ vcall.position > 0
        /\ vcall.requested > vcall.position =>
            /\ vcall.approved
            /\ vcall.quantity = Min3(vcall.requested, vcall.position,
                                     StoredOpenQuantity(vcall.ticker))
            /\ vcall.reason = "QUANTITY_ADJUSTED"

\* C7: when both checks pass (position above 0, ledger open_quantity above 0
\* and not below the request) and the request exceeds the position, the call
\* is approved with min(requested, position, ledger open_quantity) and a
\* reason that reports the adjustment; position 5, ledger 10, request 8
\* gives an approval for 5.
C7_AdjustedWhenBothChecksPass ==
    /\ vcall # NoValidation /\ vcall.has_position /\ vcall.position > 0
          /\ StoredOpenQuantity(vcall.ticker) > 0
          /\ vcall.requested <= StoredOpenQuantity(vcall.ticker)
          /\ vcall.requested > vcall.position =>
              /\ vcall.approved
              /\ vcall.quantity = Min3(vcall.requested, vcall.position,
                                       StoredOpenQuantity(vcall.ticker))
              /\ vcall.reason = "QUANTITY_ADJUSTED"
    /\ vcall # NoValidation /\ vcall.has_position /\ vcall.position = 5
          /\ StoredOpenQuantity(vcall.ticker) = 10 /\ vcall.requested = 8 =>
              vcall.approved /\ vcall.quantity = 5

C7_Witness ==
    /\ vcall.has_position
    /\ vcall.position = 5
    /\ StoredOpenQuantity(vcall.ticker) = 10
    /\ vcall.requested = 8
    /\ vcall.reason = "QUANTITY_ADJUSTED"

(***************************************************************************)
(* Properties of the ledger.                                               *)
(***************************************************************************)
\* The entry counts as: a BUY, a SELL, a BUY not marked is_closed.
Counts(trade, kind) ==
    CASE kind = "BUY" -> trade.action = "BUY"
      [] kind = "SELL" -> trade.action = "SELL"
      [] kind = "UNCLOSED_BUY" -> trade.action = "BUY" /\ ~trade.is_closed

\* The sum of the quantities of the ticker's entries of trs[i..] that count.
RECURSIVE SumQuantity(_, _, _, _)
SumQuantity(trs, i, ticker, kind) ==
    IF i > Len(trs) THEN 0
    ELSE (IF trs[i].ticker = ticker /\ Counts(trs[i], kind) THEN trs[i].quantity ELSE 0)
         + SumQuantity(trs, i + 1, ticker, kind)

\* C8: whatever ledger operations have run, each ticker's summary
\* open_quantity is the sum of the quantities of its BUY entries that are not
\* marked is_closed.
C8_OpenQuantityIsUnclosedBuys ==
    \A ticker \in DOMAIN Ledger.summary :
        Ledger.summary[ticker].open_quantity =
            SumQuantity(Ledger.trades, 1, ticker, "UNCLOSED_BUY")

\* C9: from an empty ledger, after any add_bot_trade calls, every ticker's
\* summary has open_quantity = total_buys - total_sells, total_buys the sum
\* of its BUY entries' quantities and total_sells that of its SELL entries'.
C9_SummaryIsBuysMinusSells ==
    /\ \A i \in 1..Len(Ledger.trades) : Ledger.trades[i].ticker \in DOMAIN Ledger.summary
    /\ \A ticker \in DOMAIN Ledger.summary :
           /\ Ledger.summary[ticker].open_quantity =
                  Ledger.summary[ticker].total_buys - Ledger.summary[ticker].total_sells
           /\ Ledger.summary[ticker].total_buys =
                  SumQuantity(Ledger.trades, 1, ticker, "BUY")
           /\ Ledger.summary[ticker].total_sells =
                  SumQuantity(Ledger.trades, 1, ticker, "SELL")

\* Three entries of one ticker, BUY and SELL among them.
C9_Witness ==
    /\ Len(Ledger.trades) = 3
    /\ \E ticker \in DOMAIN Ledger.summary :
           /\ Ledger.summary[ticker].total_buys = 3
           /\ Ledger.summary[ticker].total_sells = 2

LoadDocs ==
    {EmptyLedger}
    \cup {add_bot_trade(EmptyLedger, IbOrderId(1), "AAPL", "BUY", q, 150, 0) :
              q \in Quantities}
    \cup {[add_bot_trade(EmptyLedger, IbOrderId(1), "AAPL", "BUY", q, 150, 0)
               EXCEPT !.summary = EmptySummary] : q \in Quantities}
    \cup {add_bot_trade(add_bot_trade(EmptyLedger, IbOrderId(1), "AAPL", "BUY", q, 150, 0),
                        IbOrderId(2), "AAPL", "SELL", q, 150, 1) : q \in Quantities}

FileStates ==
    {MissingFile}
    \cup {OkFile(d) : d \in LoadDocs}
    \cup {BadFile(st) : st \in {"partial", "garbled", "not_ledger", "unreadable"}}

LoadInit ==
    /\ DEMO_MODE \in BOOLEAN
    /\ file \in FileStates
    /\ backup \in FileStates
    /\ trades = {}
    /\ next_order_id = 1
    /\ now = 0
    /\ last = NoCall
    /\ vcall = NoValidation
    /\ MatchIdle
    /\ StoreIdle
    /\ LoopIdle

\* load_bot_trades(), lines 102-134.
LoadBotTrades ==
    /\ loaded = NoLoad
    /\ loaded' = LoadOutcome(file, backup)
    /\ UNCHANGED <<loopVars, ledgerVars, matchVars, temp, th, lock, report, prior>>

SpecLoad == LoadInit /\ [][LoadBotTrades]_vars

\* C12: with the canonical file missing or not valid JSON and a backup that
\* holds a ledger document, load_bot_trades returns the backup's ledger.
C12_BackupWhenCanonicalUnusable ==
    loaded # NoLoad /\ (file.state = "missing" \/ file.state \in NotJson)
        /\ backup.state = "ok" =>
            loaded = Gives(backup.data)

Unusable == {"missing", "partial", "garbled", "not_ledger", "unreadable"}

\* C13: with the canonical file and the backup both unusable (missing,
\* unreadable, not valid JSON, or JSON that is not a ledger document),
\* load_bot_trades returns the empty ledger and does not raise.
C13_EmptyWhenBothUnusable ==
    loaded # NoLoad /\ file.state \in Unusable /\ backup.state \in Unusable =>
        loaded = Gives(EmptyLedger)

(***************************************************************************)
(* A ledger call step by step, as thread t runs it: the load and the       *)
(* change of trades_data, then save_bot_trades (lines 136-156): the lock,  *)
(* the copy to the backup, the write of the temporary file, the move.      *)
(***************************************************************************)
InSave == {"backup", "copying", "temp", "writing", "move", "moving", "saved"}

\* add_bot_trade / update_trade_status / close_bot_trade up to their call of
\* save_bot_trades: trades_data is the loaded ledger, changed in memory.
BeginCall(t, op, data) ==
    /\ th' = [th EXCEPT ![t] = [pc |-> "save", op |-> op, data |-> data]]
    /\ prior' = load_bot_trades(file, backup)
    /\ report' = NoReport
    /\ UNCHANGED <<loopVars, ledgerVars, matchVars, temp, lock, loaded>>

\* with trade_log_lock (line 139).
Acquire(t) ==
    /\ th[t].pc = "save"
    /\ lock = 0
    /\ lock' = t
    /\ th' = [th EXCEPT ![t].pc = "backup"]
    /\ UNCHANGED <<loopVars, ledgerVars, matchVars, temp, loaded, report, prior>>

\* Lines 141-142: shutil.copy2 opens the backup for writing and fills it.
BackupCopy(t) ==
    /\ th[t].pc = "backup"
    /\ IF file.state = "missing"
       THEN /\ th' = [th EXCEPT ![t].pc = "temp"]
            /\ UNCHANGED backup
       ELSE /\ th' = [th EXCEPT ![t].pc = "copying"]
            /\ backup' = BadFile("partial")
    /\ UNCHANGED <<loopVars, DEMO_MODE, file, trades, next_order_id, now, last, vcall,
                   matchVars, temp, lock, loaded, report, prior>>

BackupDone(t) ==
    /\ th[t].pc = "copying"
    /\ backup' = file
    /\ th' = [th EXCEPT ![t].pc = "temp"]
    /\ UNCHANGED <<loopVars, DEMO_MODE, file, trades, next_order_id, now, last, vcall,
                   matchVars, temp, lock, loaded, report, prior>>

\* Lines 145-147: open(temp_file, 'w') and json.dump.
WriteTemp(t) ==
    /\ th[t].pc = "temp"
    /\ temp' = BadFile("partial")
    /\ th' = [th EXCEPT ![t].pc = "writing"]
    /\ UNCHANGED <<loopVars, ledgerVars, matchVars, lock, loaded, report, prior>>

TempDone(t) ==
    /\ th[t].pc = "writing"
    /\ temp' = OkFile(th[t].data)
    /\ th' = [th EXCEPT ![t].pc = "move"]
    /\ UNCHANGED <<loopVars, ledgerVars, matchVars, lock, loaded, report, prior>>

\* Line 150: shutil.move calls os.rename, which replaces the canonical file
\* in one step where the platform allows it (POSIX, or no file to replace).
Move(t) ==
    /\ th[t].pc = "move"
    /\ file' = temp
    /\ temp' = MissingFile
    /\ th' = [th EXCEPT ![t].pc = "saved"]
    /\ UNCHANGED <<loopVars, DEMO_MODE, backup, trades, next_order_id, now, last, vcall,
                   matchVars, lock, loaded, report, prior>>

\* Line 150 where os.rename refuses an existing destination (Windows, which
\* main.py line 77 provides for): shutil.move falls back to copy2 onto the
\* canonical file and then removes the temporary file.
MoveCopy(t) ==
    /\ th[t].pc = "move"
    /\ file.state # "missing"
    /\ file' = BadFile("partial")
    /\ th' = [th EXCEPT ![t].pc = "moving"]
    /\ UNCHANGED <<loopVars, DEMO_MODE, backup, trades, next_order_id, now, last, vcall,
                   matchVars, temp, lock, loaded, report, prior>>

MoveCopyDone(t) ==
    /\ th[t].pc = "moving"
    /\ file' = temp
    /\ temp' = MissingFile
    /\ th' = [th EXCEPT ![t].pc = "saved"]
    /\ UNCHANGED <<loopVars, DEMO_MODE, backup, trades, next_order_id, now, last, vcall,
                   matchVars, lock, loaded, report, prior>>

\* Lines 151-152 and 198-201: save_bot_trades returns True, the caller logs
\* the trade and returns None.
Finish(t) ==
    /\ th[t].pc = "saved"
    /\ lock' = 0
    /\ th' = [th EXCEPT ![t].pc = "returned"]
    /\ report' = [called |-> TRUE, saved |-> TRUE, logged |-> TRUE, error |-> FALSE]
    /\ UNCHANGED <<loopVars, ledgerVars, matchVars, temp, loaded, prior>>

\* An OSError inside the with block (lines 154-156): the lock is released,
\* save_bot_trades logs the error and returns False; add_bot_trade ignores
\* the result (line 198), logs the trade (line 201) and returns None.
SaveFails(t) ==
    /\ th[t].pc \in {"copying", "writing", "move", "moving"}
    /\ lock' = 0
    /\ th' = [th EXCEPT ![t].pc = "returned"]
    /\ report' = [called |-> TRUE, saved |-> FALSE, logged |-> TRUE, error |-> FALSE]
    /\ UNCHANGED <<loopVars, ledgerVars, matchVars, temp, loaded, prior>>

\* The process dies inside the call; the files stay as they are.
Crash(t) ==
    /\ th[t].pc \in {"save"} \cup InSave
    /\ lock' = 0
    /\ th' = [th EXCEPT ![t].pc = "crashed"]
    /\ UNCHANGED <<loopVars, ledgerVars, matchVars, temp, loaded, report, prior>>

Restart(t) ==
    /\ th[t].pc = "crashed"
    /\ th' = [th EXCEPT ![t] = IdleThread]
    /\ UNCHANGED <<loopVars, ledgerVars, matchVars, temp, lock, loaded, report, prior>>

(***************************************************************************)
(* One thread appending to the ledger, with the failures a save can meet:  *)
(* an I/O error, the death of the process, and a canonical file found      *)
(* corrupt at the start of a call.                                         *)
(***************************************************************************)
Idle(t) == th[t].pc \in {"idle", "returned"}

\* add_bot_trade, lines 158-197.
AddBegins(t) ==
    \E ticker \in Tickers, action \in Actions, quantity \in Quantities,
       price \in LedgerPrices :
        LET data == load_bot_trades(file, backup)
            order_id == IbOrderId(Len(data.trades) + 1)
        IN  /\ Idle(t)
            /\ LoadOutcome(file, backup).kind = "ledger"
            /\ Len(data.trades) < MaxSaves
            /\ BeginCall(t, [name |-> "add", order_id |-> order_id, buy_order_id |-> NoId],
                         add_bot_trade(data, order_id, ticker, action, quantity, price, now))

\* The canonical file is damaged between two calls.
Corrupt ==
    /\ \A t \in Threads : Idle(t)
    /\ file.state = "ok"
    /\ file' = BadFile("garbled")
    /\ report' = NoReport
    /\ UNCHANGED <<loopVars, DEMO_MODE, backup, trades, next_order_id, now, last, vcall,
                   matchVars, temp, th, lock, loaded, prior>>

SaveSteps(t) ==
    \/ Acquire(t)
    \/ BackupCopy(t)
    \/ BackupDone(t)
    \/ WriteTemp(t)
    \/ TempDone(t)
    \/ Move(t)
    \/ MoveCopy(t)
    \/ MoveCopyDone(t)
    \/ Finish(t)

CrashNext ==
    \/ AddBegins(1)
    \/ SaveSteps(1)
    \/ SaveFails(1)
    \/ Crash(1)
    \/ Restart(1)
    \/ Corrupt

SpecCrash == Init /\ [][CrashNext]_vars

\* What load_bot_trades would return now.
LoadsNow == LoadOutcome(file, backup)

\* C11: when the process dies at any step of an Append, a later load returns
\* the ledger as it was before the Append or that ledger with the new entry.
C11_CrashKeepsOldOrNew ==
    th[1].pc = "crashed" => LoadsNow \in {Gives(prior), Gives(th[1].data)}

\* C16: when the save of an Append fails, add_bot_trade reports the failure to
\* its caller and does not log the trade as recorded.
C16_FailedSaveIsReported ==
    report.called /\ ~report.saved => report.error /\ ~report.logged

\* C17: when the save of an Append fails, a later load returns the ledger as
\* it was before the Append.
C17_FailedSaveLeavesLedger ==
    report.called /\ ~report.saved => LoadsNow = Gives(prior)

(***************************************************************************)
(* Two threads, each making one ledger call, and a reader of the canonical *)
(* file (load_bot_trades in a third thread, or the dashboard's             *)
(* load_trade_statistics) that reads while a save is in progress.          *)
(***************************************************************************)
OrderIds == {IbOrderId(n) : n \in 1..MaxOrders}
IdsOf(data) == {data.trades[i].order_id : i \in 1..Len(data.trades)}

ThreadsInit ==
    /\ DEMO_MODE = FALSE
    /\ file \in {MissingFile}
                \cup {OkFile(add_bot_trade(EmptyLedger, IbOrderId(1), "AAPL", "BUY", q, 150, 0)) :
                         q \in Quantities}
    /\ backup = MissingFile
    /\ trades = {}
    /\ next_order_id = 1
    /\ now = 0
    /\ last = NoCall
    /\ vcall = NoValidation
    /\ MatchIdle
    /\ StoreIdle
    /\ LoopIdle

ThreadAdd(t) ==
    \E order_id \in OrderIds, ticker \in Tickers, action \in Actions,
       quantity \in Quantities, price \in LedgerPrices :
        LET data == load_bot_trades(file, backup)
        IN  /\ th[t].pc = "idle"
            /\ order_id \notin IdsOf(data)
            /\ \A u \in Threads : th[u].op.name = "add" => th[u].op.order_id # order_id
            /\ BeginCall(t, [name |-> "add", order_id |-> order_id, buy_order_id |-> NoId],
                         add_bot_trade(data, order_id, ticker, action, quantity, price, now))

ThreadUpdate(t) ==
    \E order_id \in OrderIds :
        LET data == load_bot_trades(file, backup)
        IN  /\ th[t].pc = "idle"
            /\ order_id \in IdsOf(data)
            /\ BeginCall(t, [name |-> "update", order_id |-> order_id, buy_order_id |-> NoId],
                         update_trade_status(data, order_id, "filled", now))

ThreadClose(t) ==
    \E sell_order_id \in OrderIds, buy_order_id \in OrderIds :
        LET data == load_bot_trades(file, backup)
        IN  /\ th[t].pc = "idle"
            /\ buy_order_id \in IdsOf(data)
            /\ sell_order_id # buy_order_id
            /\ BeginCall(t, [name |-> "close", order_id |-> sell_order_id,
                             buy_order_id |-> buy_order_id],
                         close_bot_trade(data, sell_order_id, buy_order_id, now))

\* json.load of BOT_TRADES_FILE by a reader, while a writer is inside
\* save_bot_trades: what the canonical file holds at that instant.
ReadCanonical ==
    /\ lock # 0
    /\ loaded' = [kind |-> file.state, data |-> file.data]
    /\ UNCHANGED <<loopVars, ledgerVars, matchVars, temp, th, lock, report, prior>>

ThreadsNext ==
    \/ \E t \in Threads :
        \/ ThreadAdd(t)
        \/ ThreadUpdate(t)
        \/ ThreadClose(t)
        \/ SaveSteps(t)
    \/ ReadCanonical

SpecThreads == ThreadsInit /\ [][ThreadsNext]_vars

\* The change a call asked for is in the ledger.
Applied(op, data) ==
    CASE op.name = "add" -> op.order_id \in IdsOf(data)
      [] op.name = "update" ->
            \A i \in 1..Len(data.trades) :
                data.trades[i].order_id = op.order_id => data.trades[i].status = "filled"
      [] op.name = "close" ->
            \A i \in 1..Len(data.trades) :
                data.trades[i].order_id = op.buy_order_id /\ data.trades[i].action = "BUY"
                    => data.trades[i].is_closed
      [] OTHER -> TRUE

\* C14: once two threads' ledger calls have both returned, the ledger holds
\* the change of each of them.
C14_BothEffectsKept ==
    (\A t \in Threads : th[t].pc = "returned")
        => \A t \in Threads : Applied(th[t].op, load_bot_trades(file, backup))

OpsAdd ==
    \E ticker \in Tickers, action \in Actions, quantity \in Quantities,
       price \in LedgerPrices, t \in ClockFrom(now) :
        LET data == load_bot_trades(file, backup)
            s1 == save_bot_trades(file, backup,
                      add_bot_trade(data, IbOrderId(Len(data.trades) + 1),
                                    ticker, action, quantity, price, t))
        IN  /\ Len(data.trades) < MaxSaves
            /\ file' = s1.file
            /\ backup' = s1.backup
            /\ now' = t
            /\ UNCHANGED <<loopVars, DEMO_MODE, trades, next_order_id, last, vcall, matchVars, storeVars>>

\* update_trade_status(order_id, "filled")
OpsUpdate ==
    \E order_id \in OrderIds, t \in ClockFrom(now) :
        LET data == load_bot_trades(file, backup)
            s1 == save_bot_trades(file, backup,
                      update_trade_status(data, order_id, "filled", t))
        IN  /\ file' = s1.file
            /\ backup' = s1.backup
            /\ now' = t
            /\ UNCHANGED <<loopVars, DEMO_MODE, trades, next_order_id, last, vcall, matchVars, storeVars>>

OpsClose ==
    \E sell_order_id \in OrderIds, buy_order_id \in OrderIds, t \in ClockFrom(now) :
        LET data == load_bot_trades(file, backup)
            s1 == save_bot_trades(file, backup,
                      close_bot_trade(data, sell_order_id, buy_order_id, t))
        IN  /\ file' = s1.file
            /\ backup' = s1.backup
            /\ now' = t
            /\ UNCHANGED <<loopVars, DEMO_MODE, trades, next_order_id, last, vcall, matchVars, storeVars>>

OpsNext ==
    \/ OpsAdd
    \/ OpsUpdate
    \/ OpsClose

SpecOps == Init /\ [][OpsNext]_vars

\* C18: a call that finds its entry already filled, or its Buy already
\* closed, leaves the entry as it is: the completion stamp of a filled entry
\* and the closing Sell and closing stamp of a closed Buy never change.
C18_RepeatedCallChangesNothing ==
    [][\A i \in 1..Len(Ledger.trades) :
          LET old == Ledger.trades[i]
              new == Ledger'.trades[i]
          IN  /\ i <= Len(Ledger'.trades)
              /\ old.status = "filled" =>
                    new.completed_timestamp = old.completed_timestamp
              /\ old.is_closed =>
                    /\ new.closed_by_order_id = old.closed_by_order_id
                    /\ new.closed_timestamp = old.closed_timestamp]_vars

\* C19: over place_order calls and on_trade_status callbacks no entry goes
\* from filled back to pending and no Buy from closed back to open.
C19_FilledAndClosedStay ==
    [][\A i \in 1..Len(Ledger.trades) :
          /\ i <= Len(Ledger'.trades)
          /\ Ledger.trades[i].status = "filled" => Ledger'.trades[i].status = "filled"
          /\ Ledger.trades[i].is_closed => Ledger'.trades[i].is_closed]_vars

\* A Buy filled at time 0 is still filled after the callback that closed it
\* at time 1.
C19_Witness ==
    \E i \in 1..Len(Ledger.trades) :
        /\ Ledger.trades[i].status = "filled"
        /\ Ledger.trades[i].completed_timestamp = 0
        /\ Ledger.trades[i].is_closed
        /\ Ledger.trades[i].closed_timestamp = 1

\* C20: over the ledger calls no entry is removed or moved, and the order_id,
\* ticker, action, quantity, price and timestamp of an entry never change.
C20_EntriesKeepPlaceAndIdentity ==
    [][LET before == Ledger.trades
           after == Ledger'.trades
       IN  \/ after = before
           \/ /\ Len(after) >= Len(before)
              /\ \A i \in 1..Len(before) :
                    LET old == before[i]
                        new == after[i]
                    IN  /\ new.order_id = old.order_id
                        /\ new.ticker = old.ticker
                        /\ new.action = old.action
                        /\ new.quantity = old.quantity
                        /\ new.price = old.price
                        /\ new.timestamp = old.timestamp]_vars

\* Two entries, the first a Buy that a later Sell's fill has closed.
C20_Witness ==
    /\ Len(Ledger.trades) >= 2
    /\ Ledger.trades[1].is_closed
    /\ Ledger.trades[1].closed_by_order_id = Ledger.trades[2].order_id
    /\ Ledger.trades[2].status = "filled"

\* C21: no two entries of the ledger's trades list share an order_id.
C21_OrderIdsUnique ==
    \A i \in 1..Len(Ledger.trades), j \in 1..Len(Ledger.trades) :
        Ledger.trades[i].order_id = Ledger.trades[j].order_id => i = j

\* summary[ticker]['open_quantity'] as stored, 0 for a ticker without a row.
OpenQuantityRow(data, ticker) ==
    IF ticker \in DOMAIN data.summary THEN data.summary[ticker].open_quantity ELSE 0

\* C22: a load after add_bot_trade returns the ledger loaded before it with
\* the new entry at the end, pending and not closed, and the ticker's
\* open_quantity raised by the quantity for a BUY, lowered by it for a SELL.
C22_AppendRoundTrip ==
    [][Ledger' # Ledger =>
          LET n == Len(Ledger'.trades)
              entry == Ledger'.trades[n]
              signed == IF entry.action = "BUY" THEN entry.quantity
                        ELSE 0 - entry.quantity
          IN  /\ n = Len(Ledger.trades) + 1
              /\ SubSeq(Ledger'.trades, 1, n - 1) = Ledger.trades
              /\ entry.status = "pending"
              /\ entry.is_closed = FALSE
              /\ OpenQuantityRow(Ledger', entry.ticker)
                    = OpenQuantityRow(Ledger, entry.ticker) + signed]_vars

\* A SELL appended to a ledger that held a BUY of another quantity.
C22_Witness ==
    /\ Len(Ledger.trades) = 2
    /\ Ledger.trades[1].action = "BUY"
    /\ Ledger.trades[2].action = "SELL"
    /\ Ledger.trades[2].ticker = Ledger.trades[1].ticker
    /\ Ledger.trades[2].quantity < Ledger.trades[1].quantity
    /\ Ledger.trades[2].status = "pending"

\* C23: the summary load_bot_trades returns, and with it the quantity
\* get_bot_open_quantity reads, is the same for every document with the same
\* trades list, whatever its stored summary.
C23_SummaryFromTradesAlone ==
    loaded.kind = "ledger" /\ file.state = "ok" =>
        \A d \in LoadDocs :
            d.trades = file.data.trades =>
                /\ load_bot_trades(OkFile(d), backup).summary = loaded.data.summary
                /\ \A ticker \in Tickers :
                       get_bot_open_quantity(load_bot_trades(OkFile(d), backup), ticker)
                           = get_bot_open_quantity(loaded.data, ticker)

\* C24: in live mode a call that has sent an order to the broker has
\* committed the event's ledger entry.
C24_LedgerBeforeBroker ==
    ~DEMO_MODE /\ last.placed > 0 => last.recorded

(***************************************************************************)
(* main.py: the __main__ driver, start_email_listener and run_loop.        *)
(***************************************************************************)
max_connection_retries == 10
max_consecutive_failures == 5
max_idle_retries == 20
max_auth_failures == 3
max_wait_time == 30
wait_unit == 5

\* EMAIL_USER / EMAIL_PASS: absent, the template's values, or real ones.
Credentials == {"none", "template", "real"}
\* What a connection attempt raises (lines 418-445).
ConnectErrors == {"authentication", "imap", "ssl", "other"}

\* Line 460.
wait_time(consecutive_failures) == Min(max_wait_time, wait_unit * consecutive_failures)

RunLoop(new) ==
    /\ rl' = new
    /\ UNCHANGED <<ledgerVars, matchVars, storeVars, ibc, reportVars, tm>>

\* run_loop up to its retry loop (lines 302-375).
BeginRunLoop(creds) ==
    LET fresh == [NoSession EXCEPT !.creds = creds, !.net = rl.net]
    IN  CASE creds = "none" -> RunLoop([fresh EXCEPT !.pc = "ended", !.reason = "demo"])
          [] creds = "template" ->
                 RunLoop([fresh EXCEPT !.pc = "ended", !.reason = "template"])
          [] OTHER -> RunLoop([fresh EXCEPT !.pc = "connect"])

\* __main__ calls start_email_listener for the first time.
StartSession ==
    /\ rl.pc = "off"
    /\ \E creds \in Credentials : BeginRunLoop(creds)

\* IMAPClient(...), login, select_folder (lines 376-391) and the except
\* branches of a failed attempt (418-445).
Connect ==
    /\ rl.pc = "connect"
    /\ \/ /\ rl.net # "down"
          /\ RunLoop([rl EXCEPT !.pc = "idle", !.consecutive_failures = 0,
                                !.idle_retry_count = 0, !.waits = <<>>])
       \/ \E e \in ConnectErrors :
             LET failures == rl.consecutive_failures + 1
                 failed == [rl EXCEPT !.consecutive_failures = failures,
                                      !.connection_retry_count = @ + 1]
             IN  IF e = "authentication" /\ failures >= max_auth_failures
                 THEN RunLoop([failed EXCEPT !.pc = "ended", !.reason = "authentication"])
                 ELSE RunLoop([failed EXCEPT !.pc = "check"])

\* One pass of the inner loop (lines 392-416).
IdleCycle ==
    /\ rl.pc = "idle"
    /\ \/ /\ rl.net = "up"
          /\ RunLoop([rl EXCEPT !.idle_retry_count = 0])
       \/ LET n == rl.idle_retry_count + 1
          IN  RunLoop([rl EXCEPT !.idle_retry_count = n,
                                 !.pc = IF n >= max_idle_retries THEN "check" ELSE "idle"])

\* Lines 455-462 and the loop condition of line 376.
Check ==
    /\ rl.pc = "check"
    /\ IF rl.consecutive_failures >= max_consecutive_failures
       THEN RunLoop([rl EXCEPT !.pc = "ended", !.reason = "ceiling"])
       ELSE IF rl.connection_retry_count < max_connection_retries
       THEN RunLoop([rl EXCEPT !.pc = "connect",
                               !.waits = IF rl.consecutive_failures = 0 THEN @
                                         ELSE Append(@, wait_time(rl.consecutive_failures))])
       ELSE RunLoop([rl EXCEPT !.pc = "ended", !.reason = "ceiling"])

\* run_loop returns; start_email_listener collects the future (lines 464-486).
SessionEnds ==
    /\ rl.pc = "ended"
    /\ RunLoop([rl EXCEPT !.pc = "returned"])

\* start_email_listener returns False (line 487); the while loop of __main__
\* (lines 502-504) tests listener_running.
Driver ==
    /\ rl.pc = "returned"
    /\ BeginRunLoop(rl.creds)

\* From now on every transport attempt fails ("down"), or every idle / fetch
\* cycle does while connections still succeed ("idle_down").
NetFails ==
    /\ rl.pc \in {"connect", "idle", "check"}
    /\ rl.net = "up"
    /\ \E net \in {"down", "idle_down"} : RunLoop([rl EXCEPT !.net = net])

MailNext ==
    \/ StartSession
    \/ Connect
    \/ IdleCycle
    \/ Check
    \/ SessionEnds
    \/ Driver
    \/ NetFails

SpecMail == Init /\ [][MailNext]_vars

\* The program's own steps are taken when they can be.
SpecMailFair ==
    /\ SpecMail
    /\ WF_vars(Connect)
    /\ WF_vars(IdleCycle)
    /\ WF_vars(Check)
    /\ WF_vars(SessionEnds)
    /\ WF_vars(Driver)

\* C25: once every transport attempt fails, or every idle / fetch cycle of a
\* connected session does, run_loop leaves its retry loops and returns.
C25_RunLoopReturns ==
    (rl.net # "up") ~> (rl.pc = "returned")

\* C26: after a session that ended because the retry ceiling was exceeded or
\* because the credentials are the template's, no further run_loop session
\* is started.
C26_NoSessionAfterFatalEnd ==
    [][rl.pc = "returned" /\ rl.reason \in {"ceiling", "template"}
          => rl'.pc = "returned"]_vars

\* The factors an exponential schedule may multiply by.
Factors == 2..4

\* C28: within a run of consecutive failed connections each wait is the wait
\* before it times one constant factor, up to the cap.
C28_WaitsGrowByConstantFactor ==
    \E c \in Factors :
        \A i \in 2..Len(rl.waits) :
            rl.waits[i] = Min(max_wait_time, c * rl.waits[i - 1])

(***************************************************************************)
(* trade.py: setup_ib_connection (lines 385-414).                          *)
(***************************************************************************)
\* The call, up to the loop of line 402.
IbSetup ==
    /\ ibc.pc = "off"
    /\ ibc' = [ibc EXCEPT !.pc = IF DEMO_MODE THEN "connected" ELSE "connecting"]
    /\ UNCHANGED <<ledgerVars, matchVars, storeVars, rl, reportVars, tm>>

\* One pass of `while not ib.isConnected()`: ib.connect succeeds, times out
\* (client_id += 1, counted modulo MaxClientId + 1 here), or raises another error,
\* on which the function calls itself; the interpreter ends a chain of more
\* than MaxDepth nested calls with RecursionError, which leaves every frame.
IbConnect ==
    /\ ibc.pc = "connecting"
    /\ \/ /\ ibc.net = "up"
          /\ ibc' = [ibc EXCEPT !.pc = "connected"]
       \/ ibc' = [ibc EXCEPT !.client_id = (@ + 1) % (MaxClientId + 1)]
       \/ ibc' = IF ibc.depth >= MaxDepth THEN [ibc EXCEPT !.pc = "failed"]
                 ELSE [ibc EXCEPT !.depth = @ + 1, !.client_id = 0]
    /\ UNCHANGED <<ledgerVars, matchVars, storeVars, rl, reportVars, tm>>

\* From now on every connection attempt to the broker fails.
IbNetFails ==
    /\ ibc.pc = "connecting"
    /\ ibc.net = "up"
    /\ ibc' = [ibc EXCEPT !.net = "down"]
    /\ UNCHANGED <<ledgerVars, matchVars, storeVars, rl, reportVars, tm>>

IbNext ==
    \/ IbSetup
    \/ IbConnect
    \/ IbNetFails

\* The loop goes on whenever it can.
SpecIb == Init /\ [][IbNext]_vars /\ WF_vars(IbConnect)

\* C27: in live mode, once every connection attempt to the broker fails,
\* setup_ib_connection gives up and surfaces the failure.
C27_BrokerRetryBounded ==
    (ibc.pc = "connecting" /\ ibc.net = "down") ~> (ibc.pc = "failed")

Rearranged(tr, p) == [n \in 1..Len(tr) |-> tr[p[n]]]

\* C31: when no two events of a key share a timestamp, every other arrival
\* order of the same events gives each key the same closed trades and open
\* position; and the group the scan reads is in timestamp order, events of
\* one timestamp in their arrival order.
C31_TimestampOrderWhateverArrival ==
    /\ pc = "done" /\ (\A i, j \in 1..Len(match_trades) :
                          /\ i # j
                          /\ match_trades[i].key = match_trades[j].key
                          => match_trades[i].DateTime # match_trades[j].DateTime)
          => \A p \in [1..Len(match_trades) -> 1..Len(match_trades)] :
                 (\A i, j \in 1..Len(match_trades) : i # j => p[i] # p[j]) =>
                     LET out == match_buys_and_sells_state_based(
                                    Rearranged(match_trades, p))
                     IN  \A key \in Keys :
                             /\ ClosedOf(out.closed_trades, key) =
                                    ClosedOf(closed_trades, key)
                             /\ OpenOf(out.open_positions, key) =
                                    OpenOf(open_positions, key)
    /\ pc = "scan"
          => \A a, b \in 1..Len(group_trades) :
                 a < b =>
                     \/ match_trades[group_trades[a]].DateTime
                            < match_trades[group_trades[b]].DateTime
                     \/ /\ match_trades[group_trades[a]].DateTime
                               = match_trades[group_trades[b]].DateTime
                        /\ group_trades[a] < group_trades[b]

\* A Sell that arrived before the Buy it follows in time, at another price:
\* the pair is closed as Buy then Sell.
C31_Witness ==
    /\ pc = "done"
    /\ Len(match_trades) = 2
    /\ match_trades[1].Action = "Sell"
    /\ match_trades[2].Action = "Buy"
    /\ match_trades[2].key = match_trades[1].key
    /\ match_trades[2].DateTime < match_trades[1].DateTime
    /\ match_trades[2].Price # match_trades[1].Price
    /\ Len(closed_trades) = 1
    /\ closed_trades[1].open_ev = 2
    /\ closed_trades[1].close_ev = 1
    /\ open_positions = <<>>

(***************************************************************************)
(* clean_up_alert-main/main.py: the report on the closed trades.           *)
(***************************************************************************)
AlertIds == {"S1", "S2"}
Days == 0..MaxDay
\* 'Return(%)' of a closed trade, here in whole percents.
ReturnPcts == {10, 0 - 5}

\* A closed trade as far as the report on Alert IDs reads it.
ClosedRows == [AlertID : AlertIds, TradingDate : Days, Return : ReturnPcts]

\* A 'Principle' p is held as p * PrincipleUnit; every product of up to
\* MaxRows factors (1 + Return / 100) is then a whole number, and
\* p * (1 + Return / 100) is (p / 100) * (100 + Return) with nothing lost.
StartPrinciple == 100 ^ MaxRows
PrincipleUnit == StartPrinciple \div 100000

\* The rows of an Alert ID, in frame order (df[mask], group_data).
RECURSIVE RowsOf(_, _, _)
RowsOf(df, alert_id, i) ==
    IF i > Len(df) THEN <<>>
    ELSE IF df[i].AlertID = alert_id THEN <<i>> \o RowsOf(df, alert_id, i + 1)
    ELSE RowsOf(df, alert_id, i + 1)

\* sort_values('Trading Date') with rows of one date left in frame order.
RECURSIVE SortByTradingDate(_, _)
SortByTradingDate(df, g) ==
    IF g = <<>> THEN <<>>
    ELSE LET k == CHOOSE k \in 1..Len(g) :
                    \A j \in 1..Len(g) :
                        \/ df[g[k]].TradingDate < df[g[j]].TradingDate
                        \/ /\ df[g[k]].TradingDate = df[g[j]].TradingDate
                           /\ k <= j
         IN  <<g[k]>> \o SortByTradingDate(df, RemoveAt(g, k))

\* The loop of lines 463-467 with simple interest on the starting principle.
RECURSIVE PrincipleValuesSimple(_, _, _, _)
PrincipleValuesSimple(df, order, k, current_principle) ==
    IF k > Len(order) THEN df
    ELSE PrincipleValuesSimple(
             [df EXCEPT ![order[k]].Principle = current_principle], order, k + 1,
             current_principle + (StartPrinciple \div 100) * df[order[k]].Return)

\* Lines 460-470: the loop over the sorted rows and the assignment back.
RECURSIVE PrincipleValues(_, _, _, _)
PrincipleValues(df, order, k, current_principle) ==
    IF k > Len(order) THEN df
    ELSE PrincipleValues(
             [df EXCEPT ![order[k]].Principle = current_principle], order, k + 1,
             (current_principle \div 100) * (100 + df[order[k]].Return))

RECURSIVE PrincipleOfAlerts(_, _)
PrincipleOfAlerts(df, ids) ==
    IF ids = {} THEN df
    ELSE LET alert_id == CHOOSE a \in ids : TRUE
         IN  PrincipleOfAlerts(
                 PrincipleValues(df, SortByTradingDate(df, RowsOf(df, alert_id, 1)),
                                 1, StartPrinciple),
                 ids \ {alert_id})

calculate_compounded_principle(df) ==
    PrincipleOfAlerts([i \in 1..Len(df) |->
                          [AlertID |-> df[i].AlertID, TradingDate |-> df[i].TradingDate,
                           Return |-> df[i].Return, Principle |-> 0]],
                      {df[i].AlertID : i \in 1..Len(df)})

\* build_final_dataframe, as far as the rows go.
build_final_dataframe(closed) == calculate_compounded_principle(closed)

filter_dataframe_by_date(df, start_date, end_date) ==
    LET Kept(row) ==
            /\ start_date # <<>> => row.TradingDate >= start_date[1]
            /\ end_date # <<>> => row.TradingDate <= end_date[1]
    IN  SelectSeq(df, Kept)

RECURSIVE SumReturns(_, _, _)
SumReturns(df, g, k) ==
    IF k > Len(g) THEN 0 ELSE df[g[k]].Return + SumReturns(df, g, k + 1)

\* One row of create_alert_id_performance (lines 806-890); the two returns
\* are round(x, 2), in hundredths of a percent.
PerformanceRow(df, alert_id) ==
    LET group_data == RowsOf(df, alert_id, 1)
        group_data_sorted == SortByTradingDate(df, group_data)
        last_trade == df[group_data_sorted[Len(group_data_sorted)]]
        total_return == SumReturns(df, group_data, 1)
        last_principle == last_trade.Principle
        final_principle == (last_principle \div 100) * (100 + last_trade.Return)
    IN  [AlertID |-> alert_id,
         ClosedTrades |-> Len(group_data),
         TotalReturn |-> total_return * 100,
         FinalPrinciple |-> final_principle,
         CompoundedReturn |-> RoundDiv(final_principle - StartPrinciple,
                                       StartPrinciple \div 10000)]

create_alert_id_performance(df) ==
    {PerformanceRow(df, alert_id) : alert_id \in {df[i].AlertID : i \in 1..Len(df)}}

Report(new_stage) ==
    /\ stage' = new_stage
    /\ UNCHANGED <<ledgerVars, matchVars, storeVars, rl, ibc, tm>>

\* process_alerts_to_dataframe (lines 519-528), from the closed trades on.
ProcessAlerts ==
    /\ stage = "off"
    /\ \E n \in 1..MaxRows : \E closed \in [1..n -> ClosedRows] :
           df_closed' = build_final_dataframe(closed)
    /\ Report("built")
    /\ UNCHANGED <<date_filter, alert_performance>>

\* get_date_filters (lines 974-1021): all data, or a range with either end
\* open and the start not after the end.
GetDateFilters ==
    /\ stage = "built"
    /\ \E start_date \in {<<>>} \cup {<<d>> : d \in Days} :
       \E end_date \in {<<>>} \cup {<<d>> : d \in Days} :
           /\ start_date # <<>> /\ end_date # <<>> => start_date[1] <= end_date[1]
           /\ date_filter' = [start_date |-> start_date, end_date |-> end_date]
    /\ Report("asked")
    /\ UNCHANGED <<df_closed, alert_performance>>

\* Lines 1056-1060.
FilterByDate ==
    /\ stage = "asked"
    /\ df_closed' = filter_dataframe_by_date(df_closed, date_filter.start_date,
                                             date_filter.end_date)
    /\ Report(IF df_closed' = <<>> THEN "exit" ELSE "filtered")
    /\ UNCHANGED <<date_filter, alert_performance>>

\* Line 1063, create_pivot_tables (line 934).
CreatePerformance ==
    /\ stage = "filtered"
    /\ alert_performance' = create_alert_id_performance(df_closed)
    /\ Report("reported")
    /\ UNCHANGED <<df_closed, date_filter>>

ReportNext ==
    \/ ProcessAlerts
    \/ GetDateFilters
    \/ FilterByDate
    \/ CreatePerformance

SpecReport == Init /\ [][ReportNext]_vars

(***************************************************************************)
(* Properties of the report.                                               *)
(***************************************************************************)
\* Row i comes before row j in the order of Trading Date, frame order within
\* a date.
RowEarlier(df, i, j) ==
    \/ df[i].TradingDate < df[j].TradingDate
    \/ df[i].TradingDate = df[j].TradingDate /\ i < j

AlertRows(df, alert_id) == {i \in 1..Len(df) : df[i].AlertID = alert_id}

RECURSIVE ReturnSum(_, _)
ReturnSum(df, rows) ==
    IF rows = {} THEN 0
    ELSE LET i == CHOOSE i \in rows : TRUE
         IN  df[i].Return + ReturnSum(df, rows \ {i})

TenThenMinusFive ==
    <<[AlertID |-> "S1", TradingDate |-> 0, Return |-> 10],
      [AlertID |-> "S1", TradingDate |-> 1, Return |-> 0 - 5]>>

\* C32: in the frame build_final_dataframe returns, the first row of every
\* Alert ID in date order has Principle 100000 and every later one the
\* Principle of the row before it times (1 + that row's return / 100); every
\* row of the performance report has compounded return
\* (final - 100000) / 100000 * 100 for final = the last row's Principle times
\* (1 + its return / 100), and total return the sum of the returns; on
\* returns [+10, -5] that is principles [100000, 110000], final 104500,
\* compounded 4.5 and total 5.0.
C32_CompoundedPrinciple ==
    /\ stage = "built" =>
          \A i \in 1..Len(df_closed) :
              LET before == {j \in AlertRows(df_closed, df_closed[i].AlertID) :
                                RowEarlier(df_closed, j, i)}
              IN  IF before = {}
                  THEN df_closed[i].Principle = 100000 * PrincipleUnit
                  ELSE LET prev == CHOOSE j \in before :
                                       \A x \in before : x = j \/ RowEarlier(df_closed, x, j)
                       IN  /\ df_closed[prev].Principle % 100 = 0
                           /\ df_closed[i].Principle =
                                  (df_closed[prev].Principle \div 100)
                                      * (100 + df_closed[prev].Return)
    /\ stage = "reported" =>
          \A row \in alert_performance :
              LET rows == AlertRows(df_closed, row.AlertID)
                  final == CHOOSE j \in rows :
                               \A x \in rows : x = j \/ RowEarlier(df_closed, x, j)
                  balance == (df_closed[final].Principle \div 100)
                                 * (100 + df_closed[final].Return)
                  \* a hundredth of a percent of 100000
                  hundredth == 10 * PrincipleUnit
              IN  /\ df_closed[final].Principle % 100 = 0
                  /\ row.FinalPrinciple = balance
                  /\ 2 * (row.CompoundedReturn * hundredth
                            - (balance - 100000 * PrincipleUnit)) <= hundredth
                  /\ 2 * (row.CompoundedReturn * hundredth
                            - (balance - 100000 * PrincipleUnit)) >= 0 - hundredth
                  /\ row.TotalReturn = 100 * ReturnSum(df_closed, rows)
    /\ /\ stage = "reported"
       /\ date_filter = NoDates
       /\ Len(df_closed) = 2
       /\ \A i \in 1..2 : /\ df_closed[i].AlertID = TenThenMinusFive[i].AlertID
                          /\ df_closed[i].TradingDate = TenThenMinusFive[i].TradingDate
                          /\ df_closed[i].Return = TenThenMinusFive[i].Return
       => /\ df_closed[1].Principle = 100000 * PrincipleUnit
          /\ df_closed[2].Principle = 110000 * PrincipleUnit
          /\ \A row \in alert_performance :
                 /\ row.FinalPrinciple = 104500 * PrincipleUnit
                 /\ row.CompoundedReturn = 450
                 /\ row.TotalReturn = 500

\* The report on returns [+10, -5] of one Alert ID, all data.
C32_Witness ==
    /\ stage = "reported"
    /\ date_filter = NoDates
    /\ Len(df_closed) = 2
    /\ df_closed[1].Return = 10
    /\ df_closed[2].Return = 0 - 5
    /\ df_closed[2].Principle = 110000 * PrincipleUnit
    /\ \E row \in alert_performance :
           /\ alert_performance = {row}
           /\ row.ClosedTrades = 2
           /\ row.CompoundedReturn = 450
           /\ row.TotalReturn = 500

\* 100000 compounded over the given rows, as a Principle.
RECURSIVE Compounded(_, _)
Compounded(df, rows) ==
    IF rows = {} THEN 100000 * PrincipleUnit
    ELSE LET i == CHOOSE i \in rows : TRUE
         IN  (Compounded(df, rows \ {i}) \div 100) * (100 + df[i].Return)

\* C33: every row of the performance report has, as its compounded return,
\* (the product of (1 + return / 100) over the rows of its Alert ID in the
\* frame the report was made from, less 1) * 100, rounded to two decimals:
\* the rows its trade count and total return are taken from.
C33_CompoundedOverGivenTrades ==
    stage = "reported" =>
        \A row \in alert_performance :
            LET rows == AlertRows(df_closed, row.AlertID)
                hundredth == 10 * PrincipleUnit
                off == row.CompoundedReturn * hundredth
                           - (Compounded(df_closed, rows) - 100000 * PrincipleUnit)
            IN  /\ row.ClosedTrades = Cardinality(rows)
                /\ row.TotalReturn = 100 * ReturnSum(df_closed, rows)
                /\ 2 * off <= hundredth
                /\ 2 * off >= 0 - hundredth

(***************************************************************************)
(* add_bot_trade calls and the fills of the orders they recorded.          *)
(***************************************************************************)
\* on_trade_status (lines 416-438) for the order of a pending entry, done.
FillRecorded ==
    /\ ~DEMO_MODE
    /\ \E i \in 1..Len(load_bot_trades(file, backup).trades), t \in ClockFrom(now) :
          LET entry == load_bot_trades(file, backup).trades[i]
          IN  /\ entry.status = "pending"
              /\ on_trade_status(Trade(i, entry.action, entry.ticker), TRUE, t)

\* add_bot_trade for one share, with the order ids a broker hands out.
AddOneShare ==
    \E ticker \in Tickers, action \in Actions, t \in ClockFrom(now) :
        LET data == load_bot_trades(file, backup)
            s1 == save_bot_trades(file, backup,
                      add_bot_trade(data, IbOrderId(Len(data.trades) + 1),
                                    ticker, action, 1, 150, t))
        IN  /\ Len(data.trades) < MaxAdds
            /\ file' = s1.file
            /\ backup' = s1.backup
            /\ now' = t
            /\ UNCHANGED <<loopVars, DEMO_MODE, trades, next_order_id, last, vcall, matchVars, storeVars>>

FifoNext ==
    \/ AddOneShare
    \/ FillRecorded

SpecFifo == Init /\ [][FifoNext]_vars

Messages ==
    [kind : {"unparsable", "raises", "unconfigured"}, ticker : {""}, action : {""}]
    \cup [kind : {"order"}, ticker : Tickers, action : Actions]

Batch(new) ==
    /\ tm' = new
    /\ UNCHANGED <<matchVars, storeVars, rl, ibc, reportVars>>

\* Lines 239-248: the config is read, or the call returns.
BeginBatch ==
    /\ tm.pc = "off"
    /\ last = NoCall
    /\ \E n \in 1..MaxBatch, config_read \in BOOLEAN :
       \E messages \in [1..n -> Messages] :
           Batch([pc |-> IF config_read THEN "loop" ELSE "returned",
                  messages |-> messages, at |-> 1])
    /\ UNCHANGED ledgerVars

\* trade_on_messages that gives up the batch at a message it cannot handle.
SkipMessageReturns ==
    /\ tm.pc = "loop"
    /\ tm.at <= Len(tm.messages)
    /\ tm.messages[tm.at].kind # "order"
    /\ Batch([tm EXCEPT !.pc = "returned"])
    /\ UNCHANGED ledgerVars

\* Lines 250-272 and 293-300 for a message that gets no order: `continue`,
\* or the except branch, and on to the next message.
SkipMessage ==
    /\ tm.pc = "loop"
    /\ tm.at <= Len(tm.messages)
    /\ tm.messages[tm.at].kind # "order"
    /\ Batch([tm EXCEPT !.at = @ + 1])
    /\ UNCHANGED ledgerVars

\* Lines 274-291: place_ibkr_order with the quantity of the config.
OrderMessage ==
    /\ tm.pc = "loop"
    /\ tm.at <= Len(tm.messages)
    /\ tm.messages[tm.at].kind = "order"
    /\ last = NoCall
    /\ \E quantity \in Quantities, price \in LedgerPrices, t \in ClockFrom(now) :
       \E style \in OrderStyles(tm.messages[tm.at].action) :
           place_order(tm.messages[tm.at].ticker, tm.messages[tm.at].action,
                       quantity, price, style[1], style[2], t)

\* place_ibkr_order is back: the loop goes on.
NextMessage ==
    /\ tm.pc = "loop"
    /\ last # NoCall
    /\ last' = NoCall
    /\ Batch([tm EXCEPT !.at = @ + 1])
    /\ UNCHANGED <<DEMO_MODE, file, backup, trades, next_order_id, now, vcall>>

\* The loop is over.
EndBatch ==
    /\ tm.pc = "loop"
    /\ tm.at > Len(tm.messages)
    /\ Batch([tm EXCEPT !.pc = "returned"])
    /\ UNCHANGED ledgerVars

BatchNext ==
    \/ BeginBatch
    \/ SkipMessage
    \/ OrderMessage
    \/ NextMessage
    \/ EndBatch

SpecBatch == Init /\ [][BatchNext]_vars

(***************************************************************************)
(* Properties of trade_on_messages                                         *)
(***************************************************************************)
Malformed(m) == m.kind \in {"unparsable", "raises"}

AtMalformed ==
    /\ tm.pc = "loop"
    /\ tm.at <= Len(tm.messages)
    /\ Malformed(tm.messages[tm.at])

\* C35: a message of the batch that fails parsing, or raises while it is
\* handled, gets no validator call, no broker order and no ledger entry, and
\* the loop goes on to the next message: once the config is read, the call
\* returns only after the last message of the batch.
C35_MalformedMessageSkipped ==
    [][(AtMalformed =>
            (/\ last = NoCall /\ last' = NoCall
             /\ vcall' = vcall
             /\ trades' = trades /\ next_order_id' = next_order_id
             /\ file' = file /\ backup' = backup
             /\ tm' = [tm EXCEPT !.at = @ + 1]))
       /\ ((tm.pc = "loop" /\ tm'.pc = "returned") => (tm.at = Len(tm.messages) + 1))
      ]_vars

\* A batch of an unparsable message and a BUY: the call returned, and the
\* ledger has the entry of the BUY and no other.
C35_Witness ==
    /\ tm.pc = "returned"
    /\ Len(tm.messages) = 2
    /\ tm.messages[1].kind = "unparsable"
    /\ tm.messages[2].kind = "order" /\ tm.messages[2].action = "BUY"
    /\ tm.at = 3
    /\ Len(load_bot_trades(file, backup).trades) = 1
    /\ load_bot_trades(file, backup).trades[1].action = "BUY"
    /\ load_bot_trades(file, backup).trades[1].ticker = tm.messages[2].ticker

(***************************************************************************)
(* More properties of validate_bot_sell                                    *)
(***************************************************************************)
\* C36: in live mode, when the position query of the broker raises,
\* validate_bot_sell rejects the Sell, whatever the ticker and the ledger.
C36_RejectedWhenPositionQueryFails ==
    (vcall # NoValidation /\ ~DEMO_MODE /\ vcall.query_failed) => ~vcall.approved

\* C37: whatever the ticker, the requested quantity, the broker's answer and
\* the ledger, an approved result has 1 <= adjusted quantity <= min(requested
\* quantity, broker position, open quantity of the ledger), and a rejected
\* result has adjusted quantity 0.
C37_AdjustedQuantityWithinBounds ==
    vcall # NoValidation =>
        /\ vcall.approved =>
               /\ 1 <= vcall.quantity
               /\ vcall.quantity <= Min3(vcall.requested, vcall.position,
                                         StoredOpenQuantity(vcall.ticker))
        /\ ~vcall.approved => vcall.quantity = 0

(***************************************************************************)
(* place_order on a ledger that an earlier run left: one filled BUY.       *)
(***************************************************************************)
HeldLedgers ==
    {update_trade_status(
         add_bot_trade(EmptyLedger, IbOrderId(0), ticker, "BUY", q, 150, BeforeRun),
         IbOrderId(0), "filled", BeforeRun) :
     ticker \in Tickers, q \in Quantities}

HeldInit ==
    /\ DEMO_MODE \in BOOLEAN
    /\ \E data \in HeldLedgers : file = OkFile(data)
    /\ backup = MissingFile
    /\ trades = {}
    /\ next_order_id = 1
    /\ now = 0
    /\ last = NoCall
    /\ vcall = NoValidation
    /\ MatchIdle
    /\ StoreIdle
    /\ LoopIdle

SpecHeld == HeldInit /\ [][Next]_vars

StoredTrades == load_bot_trades(file, backup).trades

\* C38: after any sequence of place_order calls and fills, no two different
\* SELL entries of the ledger carry the same BUY as closes_order_id.
C38_BuyLinkedByAtMostOneSell ==
    \A i, j \in 1..Len(StoredTrades) :
        (/\ i # j
         /\ StoredTrades[i].action = "SELL" /\ StoredTrades[j].action = "SELL"
         /\ StoredTrades[i].order_id # StoredTrades[j].order_id
         /\ StoredTrades[i].closes_order_id # NoId)
        => StoredTrades[i].closes_order_id # StoredTrades[j].closes_order_id

(***************************************************************************)
(* More properties of save_bot_trades                                      *)
(***************************************************************************)
ReadableCopy == file.state = "ok" \/ backup.state = "ok"

\* C39: save_bot_trades never destroys the last readable copy of the ledger:
\* a step of a save that starts with a ledger document in the canonical file
\* or in the backup ends with one in the canonical file or in the backup,
\* also when the save began with a corrupt canonical file and a good backup.
C39_SaveKeepsReadableCopy ==
    [][(th[1].pc \in {"save"} \cup InSave /\ ReadableCopy) => ReadableCopy']_vars

(***************************************************************************)
(* More properties of the matcher                                          *)
(***************************************************************************)
OpenedAt(c) == match_trades[c.open_ev].DateTime
ClosedAt(c) == match_trades[c.close_ev].DateTime

\* C40: for every key the closed trades are emitted in chronological order
\* and never overlap: each closes at or after its opening (its closing date
\* is not before its trading date, so the days in the market are >= 0), each
\* later one of the key opens at or after the close of every earlier one, and
\* an open position of the key opens at or after its last close.
C40_ClosedTradesInOrderNoOverlap ==
    \A j \in 1..Len(closed_trades) :
        /\ ClosedAt(closed_trades[j]) >= OpenedAt(closed_trades[j])
        /\ closed_trades[j].ClosingDate >= closed_trades[j].TradingDate
        /\ \A i \in 1..(j - 1) :
               closed_trades[i].key = closed_trades[j].key =>
                   OpenedAt(closed_trades[j]) >= ClosedAt(closed_trades[i])
        /\ \A n \in 1..Len(open_positions) :
               open_positions[n].key = closed_trades[j].key =>
                   match_trades[open_positions[n].entry_ev].DateTime
                       >= ClosedAt(closed_trades[j])

\* Four events of one key that arrived out of order, matched into two closed
\* trades, the second opening when the first closed.
C40_Witness ==
    /\ pc = "done"
    /\ Len(match_trades) = 4
    /\ match_trades[1].DateTime > match_trades[4].DateTime
    /\ Len(closed_trades) = 2
    /\ closed_trades[1].key = closed_trades[2].key
    /\ ClosedAt(closed_trades[1]) > OpenedAt(closed_trades[1])
    /\ OpenedAt(closed_trades[2]) = ClosedAt(closed_trades[1])
    /\ ClosedAt(closed_trades[2]) > OpenedAt(closed_trades[2])
====
